---- MODULE Spec2Model ----
(***************************************************************************)
(* Model of the EUR-Lex structural parser of at-fk/eu-reg-uploader         *)
(* (src/eu_reg_html_analyzer.py): the SectionBuilder, the annex extractor, *)
(* the article/paragraph parser and the full extraction run.               *)
(*                                                                         *)
(* Text is a sequence of characters.  A character is a one-character       *)
(* string; the three non-ASCII characters the code tests for are named:    *)
(* EM is U+2014 (em dash), EN is U+2013 (en dash), BUL is U+2022 (bullet). *)
(* Texts are single-line (no "\n"), so the regex "." matches every         *)
(* character of a text.                                                    *)
(***************************************************************************)
EXTENDS Integers, Sequences, FiniteSets, TLC

VARIABLES
    pc,                  \* position of the modelled caller
    sections,            \* SectionBuilder.sections
    current_section,     \* SectionBuilder.current_section: index into sections, 0 is None
    current_subsection,  \* SectionBuilder.current_subsection: [sec, idx], idx 0 is None
    nfeeds,              \* number of builder operations performed so far
    flushed,             \* value returned by the last flush()
    lastop,              \* the last builder operation and its argument
    annex_map,           \* _extract_annexes: annex_map, in insertion order
    order_index,         \* _extract_annexes: loop counter over the headers
    built,               \* per processed header: the annex id and the sections built for it
    annexes,             \* value returned by _extract_annexes
    article,             \* the article element given to _extract_articles
    paragraphs,          \* value of article['paragraphs'] after extraction
    clock,               \* datetime.now()
    document,            \* the downloaded document of a full extraction run
    outputs,             \* the data of each completed save_structured_data run
    collected,           \* _extract_annexes: content_nodes collected after one header
    delivered,           \* the arguments of the feed_text and feed_list calls, in call order
    json_path,           \* stem of the structured JSON file given to the ingestion
    json_file,           \* the object json.load reads from that file
    store,               \* the tables of the hierarchical database behind the session
    ingests,             \* number of ingest_structured_json_file calls made so far
    fragment,            \* _merge_sections: new_sections
    merge_log            \* _merge_sections: existing_sections at the start and after each call

vars == <<pc, sections, current_section, current_subsection, nfeeds, flushed, lastop,
          annex_map, order_index, built, annexes, article, paragraphs, clock,
          document, outputs, collected, delivered, json_path, json_file, store, ingests,
          fragment, merge_log>>

builderVars == <<sections, current_section, current_subsection, nfeeds, flushed, lastop>>
annexVars == <<annex_map, order_index, built, annexes>>
articleVars == <<article, paragraphs>>
runVars == <<clock, document, outputs>>
contentVars == <<collected, delivered>>
ingestVars == <<json_path, json_file, store, ingests>>
mergeVars == <<fragment, merge_log>>

(***************************************************************************)
(* Characters and strings                                                  *)
(***************************************************************************)
EM == "EM"
EN == "EN"
BUL == "BUL"

DigitChars == {"0", "1", "2", "3", "4", "5", "6", "7", "8", "9"}
SpaceChars == {" "}
LowerChars == {"a", "b", "c", "d", "e", "f", "g", "h", "i", "j", "k", "l", "m",
               "n", "o", "p", "q", "r", "s", "t", "u", "v", "w", "x", "y", "z"}
UpperChars == {"A", "B", "C", "D", "E", "F", "G", "H", "I", "J", "K", "L", "M",
               "N", "O", "P", "Q", "R", "S", "T", "U", "V", "W", "X", "Y", "Z"}
IsDigit(c) == c \in DigitChars
IsSpace(c) == c \in SpaceChars
IsLower(c) == c \in LowerChars
IsUpper(c) == c \in UpperChars

Take(s, n) == SubSeq(s, 1, n)
Drop(s, n) == SubSeq(s, n + 1, Len(s))

\* Length of the longest prefix of s whose characters are all in the class cs.
RECURSIVE RunLen(_, _)
RunLen(s, cs) == IF s = <<>> \/ Head(s) \notin cs THEN 0 ELSE 1 + RunLen(Tail(s), cs)

DigitRun(s) == RunLen(s, DigitChars)
SpaceRun(s) == RunLen(s, SpaceChars)

LStrip(s) == Drop(s, SpaceRun(s))

RECURSIVE RStrip(_)
RStrip(s) == IF s # <<>> /\ IsSpace(s[Len(s)]) THEN RStrip(Take(s, Len(s) - 1)) ELSE s

\* str.strip()
Strip(s) == RStrip(LStrip(s))

\* a in b, for strings
IsSubstring(a, b) ==
    \E i \in 0..(Len(b) - Len(a)) : SubSeq(b, i + 1, i + Len(a)) = a

StartsWith(s, p) == Len(s) >= Len(p) /\ Take(s, Len(p)) = p

RECURSIVE Concat(_)
Concat(ss) == IF ss = <<>> THEN <<>> ELSE Head(ss) \o Concat(Tail(ss))

\* sep.join(ss)
RECURSIVE Join(_, _)
Join(ss, sep) ==
    IF ss = <<>> THEN <<>>
    ELSE IF Len(ss) = 1 THEN ss[1]
    ELSE ss[1] \o sep \o Join(Tail(ss), sep)

Range(s) == {s[i] : i \in 1..Len(s)}

(***************************************************************************)
(* The regular expressions of SectionBuilder, matched at the start of a    *)
(* text as re.match does.  A match is [ok, g1, g2, g3].                    *)
(***************************************************************************)
NoMatch == [ok |-> FALSE, g1 |-> <<>>, g2 |-> <<>>, g3 |-> <<>>]

\* The tail "\s+(.+)" (minSp = 1) or "\s*(.+)" (minSp = 0): the whitespace
\* is greedy and gives one character back when nothing else is left.
SpacesThenAny(rest, minSp) ==
    LET k == SpaceRun(rest)
        t == Drop(rest, k)
    IN  IF t # <<>> /\ k >= minSp THEN [ok |-> TRUE, g |-> t]
        ELSE IF t = <<>> /\ k >= minSp + 1 THEN [ok |-> TRUE, g |-> <<" ">>]
        ELSE [ok |-> FALSE, g |-> <<>>]

\* NUMBER = ^(\d+)[\.\)]\s+(.+)
NUMBER(s) ==
    LET d == DigitRun(s) IN
    IF d >= 1 /\ Len(s) > d /\ s[d + 1] \in {".", ")"}
    THEN LET t == SpacesThenAny(Drop(s, d + 1), 1) IN
         IF t.ok THEN [ok |-> TRUE, g1 |-> Take(s, d), g2 |-> t.g, g3 |-> <<>>]
         ELSE NoMatch
    ELSE NoMatch

\* HIER = ^(\d+)\.\s+(\d+)\.\s+(.+)
HIER(s) ==
    LET d == DigitRun(s) IN
    IF d >= 1 /\ Len(s) > d /\ s[d + 1] = "."
    THEN LET r  == Drop(s, d + 1)
             k  == SpaceRun(r)
             r2 == Drop(r, k)
             e  == DigitRun(r2)
         IN  IF k >= 1 /\ e >= 1 /\ Len(r2) > e /\ r2[e + 1] = "."
             THEN LET t == SpacesThenAny(Drop(r2, e + 1), 1) IN
                  IF t.ok
                  THEN [ok |-> TRUE, g1 |-> Take(s, d), g2 |-> Take(r2, e), g3 |-> t.g]
                  ELSE NoMatch
             ELSE NoMatch
    ELSE NoMatch

\* LETTER = ^\(([a-z])\)\s+(.+)
LETTER(s) ==
    IF Len(s) >= 3 /\ s[1] = "(" /\ IsLower(s[2]) /\ s[3] = ")"
    THEN LET t == SpacesThenAny(Drop(s, 3), 1) IN
         IF t.ok THEN [ok |-> TRUE, g1 |-> <<s[2]>>, g2 |-> t.g, g3 |-> <<>>]
         ELSE NoMatch
    ELSE NoMatch

RomanChars == {"i", "v", "x", "I", "V", "X"}

\* ROMAN = ^\(([ivx]+)\)\s+(.+), re.IGNORECASE
ROMAN(s) ==
    IF s # <<>> /\ s[1] = "("
    THEN LET r == Tail(s)
             n == RunLen(r, RomanChars)
         IN  IF n >= 1 /\ Len(r) > n /\ r[n + 1] = ")"
             THEN LET t == SpacesThenAny(Drop(r, n + 1), 1) IN
                  IF t.ok THEN [ok |-> TRUE, g1 |-> Take(r, n), g2 |-> t.g, g3 |-> <<>>]
                  ELSE NoMatch
             ELSE NoMatch
    ELSE NoMatch

BulletChars == {EM, "-", BUL}

\* DASH = ^[—\-•]\s*(.+)
DASH(s) ==
    IF s # <<>> /\ s[1] \in BulletChars
    THEN LET t == SpacesThenAny(Tail(s), 0) IN
         IF t.ok THEN [ok |-> TRUE, g1 |-> t.g, g2 |-> <<>>, g3 |-> <<>>]
         ELSE NoMatch
    ELSE NoMatch

SectionWord == <<"S", "e", "c", "t", "i", "o", "n">>
SectionSepChars == {".", " ", EM, EN, "-"}

\* ^Section\s+([A-Z])[\.\s—–\-]+(.+): the separator run is greedy and gives
\* its last character to the heading when it reaches the end of the text.
SECTION_AB(s) ==
    IF StartsWith(s, SectionWord)
    THEN LET r  == Drop(s, Len(SectionWord))
             k  == SpaceRun(r)
             r2 == Drop(r, k)
         IN  IF k >= 1 /\ r2 # <<>> /\ IsUpper(r2[1])
             THEN LET r3 == Tail(r2)
                      n  == RunLen(r3, SectionSepChars)
                  IN  IF n >= 1 /\ n < Len(r3)
                      THEN [ok |-> TRUE, g1 |-> <<r2[1]>>, g2 |-> Drop(r3, n), g3 |-> <<>>]
                      ELSE IF n >= 2 /\ n = Len(r3)
                      THEN [ok |-> TRUE, g1 |-> <<r2[1]>>, g2 |-> <<r3[n]>>, g3 |-> <<>>]
                      ELSE NoMatch
             ELSE NoMatch
    ELSE NoMatch

(***************************************************************************)
(* SectionBuilder.  The builder is the triple (sections, current_section,  *)
(* current_subsection).  current_section is a reference to an element of   *)
(* sections, kept here as that element's index; current_subsection is a    *)
(* reference to a subsection, kept as the pair (index of its section,      *)
(* index among that section's subsections).                                *)
(***************************************************************************)
NoSub == [sec |-> 0, idx |-> 0]

Builder(s, c, u) ==
    [sections |-> s, current_section |-> c, current_subsection |-> u]

\* SectionBuilder.__init__
NewBuilder == Builder(<<>>, 0, NoSub)

Section(id, heading, list_type, items, tables) ==
    [section_id |-> id, heading |-> heading, list_type |-> list_type,
     items |-> items, subsections |-> <<>>, tables |-> tables]

\* Index of the first section with this id, 0 when there is none.
FindExistingSection(secs, id) ==
    IF \E i \in 1..Len(secs) : secs[i].section_id = id
    THEN CHOOSE i \in 1..Len(secs) :
            /\ secs[i].section_id = id
            /\ \A j \in 1..(i - 1) : secs[j].section_id # id
    ELSE 0

\* Classify with the plain numbered pattern tried before the hierarchical one.
ClassifyNumberedFirst(txt, hasCurrent) ==
    IF txt \in {<<EM>>, <<"-">>, <<BUL>>} THEN "skip"
    ELSE IF SECTION_AB(txt).ok THEN "section_ab"
    ELSE IF NUMBER(txt).ok THEN "number"
    ELSE IF HIER(txt).ok THEN "hier"
    ELSE IF LETTER(txt).ok /\ hasCurrent THEN "letter"
    ELSE IF DASH(txt).ok THEN "dash"
    ELSE "default"

\* The branch feed_text takes for a stripped, non-empty text.
Classify(txt, hasCurrent) ==
    IF txt \in {<<EM>>, <<"-">>, <<BUL>>} THEN "skip"
    ELSE IF SECTION_AB(txt).ok THEN "section_ab"
    ELSE IF HIER(txt).ok THEN "hier"
    ELSE IF NUMBER(txt).ok THEN "number"
    ELSE IF LETTER(txt).ok /\ hasCurrent THEN "letter"
    ELSE IF DASH(txt).ok THEN "dash"
    ELSE "default"

\* The Section branch without the reset of the current subsection.
FeedSectionABKeepsSubsection(b, txt) ==
    Builder(Append(b.sections,
                   Section(SECTION_AB(txt).g1, Strip(SECTION_AB(txt).g2), "ordered", <<>>, <<>>)),
            Len(b.sections) + 1, b.current_subsection)

FeedSectionAB(b, txt) ==
    LET m == SECTION_AB(txt)
        sec == Section(m.g1, Strip(m.g2), "ordered", <<>>, <<>>)
    IN  Builder(Append(b.sections, sec), Len(b.sections) + 1, NoSub)

FeedHier(b, txt) ==
    LET m == HIER(txt)
        content == Strip(m.g3)
        section_id == m.g1 \o <<".">> \o m.g2
        existing == FindExistingSection(b.sections, section_id)
    IN  IF existing # 0
        THEN Builder([b.sections EXCEPT ![existing].items = Append(@, content)],
                     existing, NoSub)
        ELSE Builder(Append(b.sections, Section(section_id, content, "ordered", <<>>, <<>>)),
                     Len(b.sections) + 1, NoSub)

\* The numbered branch without the look-up: every numbered line opens a section.
FeedNumberAlwaysNew(b, txt) ==
    Builder(Append(b.sections,
                   Section(NUMBER(txt).g1, Strip(NUMBER(txt).g2), "ordered", <<>>, <<>>)),
            Len(b.sections) + 1, NoSub)

FeedNumber(b, txt) ==
    LET m == NUMBER(txt)
        section_id == m.g1
        heading == Strip(m.g2)
        existing == FindExistingSection(b.sections, section_id)
    IN  IF existing # 0
        THEN IF heading # <<>> /\ ~IsSubstring(heading, b.sections[existing].heading)
             THEN Builder([b.sections EXCEPT ![existing].heading = @ \o <<" ">> \o heading],
                          existing, NoSub)
             ELSE Builder(b.sections, existing, NoSub)
        ELSE Builder(Append(b.sections, Section(section_id, heading, "ordered", <<>>, <<>>)),
                     Len(b.sections) + 1, NoSub)

\* The lettered branch without the comparison of keys: every lettered line
\* opens a subsection.
FeedLetterAlwaysNew(b, txt) ==
    Builder([b.sections EXCEPT ![b.current_section].subsections =
                Append(@, [subsection_id |-> LETTER(txt).g1,
                           items |-> <<Strip(LETTER(txt).g2)>>])],
            b.current_section,
            [sec |-> b.current_section,
             idx |-> Len(b.sections[b.current_section].subsections) + 1])

FeedLetter(b, txt) ==
    LET m == LETTER(txt)
        letter_id == m.g1
        content == Strip(m.g2)
        cur == b.current_section
        sub == b.current_subsection
        fresh == \/ sub.idx = 0
                 \/ b.sections[sub.sec].subsections[sub.idx].subsection_id # letter_id
        secs1 == IF fresh
                 THEN [b.sections EXCEPT ![cur].subsections =
                          Append(@, [subsection_id |-> letter_id, items |-> <<>>])]
                 ELSE b.sections
        sub1 == IF fresh
                THEN [sec |-> cur, idx |-> Len(b.sections[cur].subsections) + 1]
                ELSE sub
    IN  Builder([secs1 EXCEPT ![sub1.sec].subsections[sub1.idx].items = Append(@, content)],
                cur, sub1)

FeedDash(b, txt) ==
    LET content == Strip(DASH(txt).g1) IN
    IF b.current_section # 0
    THEN Builder([b.sections EXCEPT ![b.current_section].items = Append(@, content)],
                 b.current_section, b.current_subsection)
    ELSE b

FeedDefault(b, txt) ==
    IF b.current_section # 0
    THEN Builder([b.sections EXCEPT ![b.current_section].items = Append(@, txt)],
                 b.current_section, b.current_subsection)
    ELSE Builder(Append(b.sections, Section(<<"1">>, <<>>, "dash", <<txt>>, <<>>)),
                 Len(b.sections) + 1, b.current_subsection)

\* The body of the branch of feed_text that kind names, on the stripped text.
FeedBranch(b, txt, kind) ==
    CASE kind = "skip" -> b
      [] kind = "section_ab" -> FeedSectionAB(b, txt)
      [] kind = "hier" -> FeedHier(b, txt)
      [] kind = "number" -> FeedNumber(b, txt)
      [] kind = "letter" -> FeedLetter(b, txt)
      [] kind = "dash" -> FeedDash(b, txt)
      [] OTHER -> FeedDefault(b, txt)

\* SectionBuilder.feed_text
FeedText(b, raw) ==
    IF Strip(raw) = <<>> THEN b
    ELSE FeedBranch(b, Strip(raw), Classify(Strip(raw), b.current_section # 0))

\* SectionBuilder.feed_list
FeedList(b, li_text) == FeedText(b, li_text)

\* SectionBuilder.add_table_to_current_section
AddTableToCurrentSection(b, table) ==
    IF b.current_section # 0
    THEN Builder([b.sections EXCEPT ![b.current_section].tables = Append(@, table)],
                 b.current_section, b.current_subsection)
    ELSE Builder(Append(b.sections, Section(<<"1">>, <<>>, "ordered", <<>>, <<table>>)),
                 Len(b.sections) + 1, b.current_subsection)

\* SectionBuilder._detect_list_type: more than 0.7 of the items match DASH,
\* else more than 0.5 match LETTER.
DetectListType(items) ==
    LET dash_count == Cardinality({i \in 1..Len(items) : DASH(items[i]).ok})
        letter_count == Cardinality({i \in 1..Len(items) : LETTER(items[i]).ok})
    IN  IF items = <<>> THEN "dash"
        ELSE IF 10 * dash_count > 7 * Len(items) THEN "dash"
        ELSE IF 2 * letter_count > Len(items) THEN "letter"
        ELSE "ordered"

\* The list flush() returns; the builder itself becomes NewBuilder.
FlushResult(b) ==
    [i \in 1..Len(b.sections) |->
        IF b.sections[i].items # <<>>
        THEN [b.sections[i] EXCEPT !.list_type = DetectListType(b.sections[i].items)]
        ELSE b.sections[i]]

\* flush() that hands out the list and keeps building on it.
FlushKeepsState(b) == b

\* The builder flush() leaves behind: a new empty list, no current section,
\* no current subsection.
FlushState(b) == NewBuilder

(***************************************************************************)
(* The SectionBuilder driven directly: any sequence of feed_text,         *)
(* add_table_to_current_section and flush calls, up to MaxFeeds calls.    *)
(***************************************************************************)
MaxFeeds == 3

TxtNested == <<"1", ".", " ", "1", ".", " ", "N", "e", "s", "t", "e", "d", " ", "c", "l", "a", "u", "s", "e", " ", "t", "e", "x", "t">>
TxtHierA == <<"1", ".", " ", "1", ".", " ", "a">>
TxtHierDash == <<"1", ".", " ", "1", ".", " ", EM>>
TxtHier21 == <<"2", ".", " ", "1", ".", " ", "b">>
TxtNum1 == <<"1", ".", " ", "a", "b">>
TxtNum1b == <<"1", ".", " ", "b">>
TxtNum2 == <<"2", ")", " ", "c">>
TxtLetA == <<"(", "a", ")", " ", "x">>
TxtLetB == <<"(", "b", ")", " ", EM>>
TxtRoman == <<"(", "i", "i", ")", " ", "z">>
TxtDash == <<EM, " ", "d">>
TxtDashDash == <<EM, " ", EM>>
TxtHyphen == <<"-", "(", "a", ")", " ", "e">>
TxtBare == <<EM>>
TxtPlain == <<"p", "q">>
TxtSecA == <<"S", "e", "c", "t", "i", "o", "n", " ", "A", ".", " ", "h">>
TxtSecA2 == <<"S", "e", "c", "t", "i", "o", "n", " ", "A", " ", EM, " ", "g">>
TxtBlank == <<" ", " ">>

FeedTexts == {TxtNested, TxtHierA, TxtHierDash, TxtHier21, TxtNum1, TxtNum1b, TxtNum2, TxtLetA, TxtLetB, TxtRoman, TxtDash, TxtDashDash, TxtHyphen, TxtBare, TxtPlain, TxtSecA, TxtSecA2, TxtBlank}

Table(caption, rows) == [caption |-> caption, rows |-> rows]
TableOne == Table(<<"c">>, << <<TxtPlain, TxtPlain>> >>)
TableTwo == Table(<<"c">>, << <<TxtPlain, TxtDash>> >>)
FeedTables == {TableOne, TableTwo}

TheBuilder == Builder(sections, current_section, current_subsection)

NoArticle == [number |-> 1, title |-> <<>>, children |-> <<>>]

IdleAnnex ==
    /\ annex_map = <<>>
    /\ order_index = 0
    /\ built = <<>>
    /\ annexes = <<>>

IdleArticle ==
    /\ article = NoArticle
    /\ paragraphs = <<>>

IdleRun ==
    /\ clock = 0
    /\ document = <<>>
    /\ outputs = <<>>

IdleContent ==
    /\ collected = <<>>
    /\ delivered = <<>>

\* The database before the first ingestion: every table empty.
EmptyDb == [Regulation |-> <<>>, Recital |-> <<>>, Chapter |-> <<>>, Article |-> <<>>,
            Paragraph |-> <<>>]

IdleIngest ==
    /\ json_path = <<>>
    /\ json_file = <<>>
    /\ store = EmptyDb
    /\ ingests = 0

IdleMerge ==
    /\ fragment = <<>>
    /\ merge_log = <<>>

IdleBuilder ==
    /\ sections = <<>>
    /\ current_section = 0
    /\ current_subsection = NoSub
    /\ nfeeds = 0
    /\ flushed = <<>>
    /\ lastop = [op |-> "init", arg |-> <<>>, before |-> NewBuilder]

InitBuilder ==
    /\ pc = "builder"
    /\ IdleBuilder
    /\ IdleAnnex
    /\ IdleArticle
    /\ IdleRun
    /\ IdleContent
    /\ IdleIngest
    /\ IdleMerge

SetBuilder(b) ==
    /\ sections' = b.sections
    /\ current_section' = b.current_section
    /\ current_subsection' = b.current_subsection

BFeedText ==
    /\ pc = "builder"
    /\ nfeeds < MaxFeeds
    /\ \E t \in FeedTexts :
          /\ SetBuilder(FeedText(TheBuilder, t))
          /\ lastop' = [op |-> "feed_text", arg |-> t, before |-> TheBuilder]
    /\ nfeeds' = nfeeds + 1
    /\ UNCHANGED <<pc, flushed, annexVars, articleVars, runVars, contentVars, ingestVars, mergeVars>>

BAddTable ==
    /\ pc = "builder"
    /\ nfeeds < MaxFeeds
    /\ \E t \in FeedTables :
          /\ SetBuilder(AddTableToCurrentSection(TheBuilder, t))
          /\ lastop' = [op |-> "add_table", arg |-> t, before |-> TheBuilder]
    /\ nfeeds' = nfeeds + 1
    /\ UNCHANGED <<pc, flushed, annexVars, articleVars, runVars, contentVars, ingestVars, mergeVars>>

BFlush ==
    /\ pc = "builder"
    /\ nfeeds < MaxFeeds
    /\ flushed' = FlushResult(TheBuilder)
    /\ SetBuilder(FlushState(TheBuilder))
    /\ lastop' = [op |-> "flush", arg |-> <<>>, before |-> TheBuilder]
    /\ nfeeds' = nfeeds + 1
    /\ UNCHANGED <<pc, annexVars, articleVars, runVars, contentVars, ingestVars, mergeVars>>

NextBuilder == BFeedText \/ BAddTable \/ BFlush

SpecBuilder == InitBuilder /\ [][NextBuilder]_vars

(***************************************************************************)
(* EURegulationAnalyzer._normalize_text                                    *)
(***************************************************************************)
\* ' '.join(text.split())
RECURSIVE CollapseSpaces(_)
CollapseSpaces(s) ==
    LET t == LStrip(s) IN
    IF t = <<>> THEN <<>>
    ELSE LET n == IF \E i \in 1..Len(t) : IsSpace(t[i])
                  THEN (CHOOSE i \in 1..Len(t) :
                           IsSpace(t[i]) /\ \A j \in 1..(i - 1) : ~IsSpace(t[j])) - 1
                  ELSE Len(t)
             rest == CollapseSpaces(Drop(t, n))
         IN  IF rest = <<>> THEN Take(t, n) ELSE Take(t, n) \o <<" ">> \o rest

PunctChars == {".", ",", ";", ":"}

\* re.sub(r'([.,;:])(?!\s)', r'\1 ', text)
RECURSIVE SpaceAfterPunct(_)
SpaceAfterPunct(s) ==
    IF s = <<>> THEN <<>>
    ELSE IF Head(s) \in PunctChars /\ (Len(s) = 1 \/ ~IsSpace(s[2]))
    THEN <<Head(s), " ">> \o SpaceAfterPunct(Tail(s))
    ELSE <<Head(s)>> \o SpaceAfterPunct(Tail(s))

\* re.sub(r'\s*\(\s*', ' (', text)
RECURSIVE SpaceOpenParen(_)
SpaceOpenParen(s) ==
    IF s = <<>> THEN <<>>
    ELSE LET k == SpaceRun(s) IN
         IF k < Len(s) /\ s[k + 1] = "("
         THEN <<" ", "(">> \o SpaceOpenParen(LStrip(Drop(s, k + 1)))
         ELSE <<Head(s)>> \o SpaceOpenParen(Tail(s))

\* re.sub(r'\s*\)\s*', ') ', text)
RECURSIVE SpaceCloseParen(_)
SpaceCloseParen(s) ==
    IF s = <<>> THEN <<>>
    ELSE LET k == SpaceRun(s) IN
         IF k < Len(s) /\ s[k + 1] = ")"
         THEN <<")", " ">> \o SpaceCloseParen(LStrip(Drop(s, k + 1)))
         ELSE <<Head(s)>> \o SpaceCloseParen(Tail(s))

NormalizeText(text) ==
    IF text = <<>> THEN <<>>
    ELSE Strip(SpaceCloseParen(SpaceOpenParen(SpaceAfterPunct(CollapseSpaces(text)))))

UpperSeq == <<"A", "B", "C", "D", "E", "F", "G", "H", "I", "J", "K", "L", "M",
              "N", "O", "P", "Q", "R", "S", "T", "U", "V", "W", "X", "Y", "Z">>
LowerSeq == <<"a", "b", "c", "d", "e", "f", "g", "h", "i", "j", "k", "l", "m",
              "n", "o", "p", "q", "r", "s", "t", "u", "v", "w", "x", "y", "z">>

\* ord(c) - ord('A') + 1 for an upper-case letter, ord(c) - ord('a') + 1 for a lower-case one
LetterIndex(c) ==
    IF c \in UpperChars THEN CHOOSE i \in 1..Len(UpperSeq) : UpperSeq[i] = c
    ELSE CHOOSE i \in 1..Len(LowerSeq) : LowerSeq[i] = c

\* str.lower() and str.upper()
ToLower(s) == [i \in 1..Len(s) |-> IF s[i] \in UpperChars THEN LowerSeq[LetterIndex(s[i])] ELSE s[i]]
ToUpper(s) == [i \in 1..Len(s) |-> IF s[i] \in LowerChars THEN UpperSeq[LetterIndex(s[i])] ELSE s[i]]

DigitSeq == <<"0", "1", "2", "3", "4", "5", "6", "7", "8", "9">>

\* str(n) for a natural number n
RECURSIVE IntToStr(_)
IntToStr(n) ==
    IF n < 10 THEN <<DigitSeq[n + 1]>>
    ELSE IntToStr(n \div 10) \o <<DigitSeq[(n % 10) + 1]>>

(***************************************************************************)
(* Merging the sections of a repeated annex header into the annex built    *)
(* earlier (_merge_sections, _merge_section_tables, _merge_subsections).   *)
(***************************************************************************)
\* The items of the new section appended without looking at those already there.
MergeItemsAll(existing_items, new_items) == existing_items \o new_items

RECURSIVE MergeItems(_, _)
MergeItems(existing_items, new_items) ==
    IF new_items = <<>> THEN existing_items
    ELSE IF Head(new_items) \in Range(existing_items)
    THEN MergeItems(existing_items, Tail(new_items))
    ELSE MergeItems(Append(existing_items, Head(new_items)), Tail(new_items))

\* A new table is a duplicate when an existing one has its caption and its number of rows.
RECURSIVE MergeSectionTables(_, _)
MergeSectionTables(existing_tables, new_tables) ==
    IF new_tables = <<>> THEN existing_tables
    ELSE LET new_table == Head(new_tables)
             is_duplicate ==
                 \E i \in 1..Len(existing_tables) :
                    /\ existing_tables[i].caption = new_table.caption
                    /\ Len(existing_tables[i].rows) = Len(new_table.rows)
         IN  MergeSectionTables(
                IF is_duplicate THEN existing_tables ELSE Append(existing_tables, new_table),
                Tail(new_tables))

RECURSIVE MergeSubsections(_, _)
MergeSubsections(existing_subsections, new_subsections) ==
    IF new_subsections = <<>> THEN existing_subsections
    ELSE LET new_sub == Head(new_subsections)
             known == \E i \in 1..Len(existing_subsections) :
                         existing_subsections[i].subsection_id = new_sub.subsection_id
         IN  MergeSubsections(
                IF known THEN existing_subsections ELSE Append(existing_subsections, new_sub),
                Tail(new_subsections))

RECURSIVE MergeSections(_, _)
MergeSections(existing_sections, new_sections) ==
    IF new_sections = <<>> THEN existing_sections
    ELSE LET new_sec == Head(new_sections)
             e == FindExistingSection(existing_sections, new_sec.section_id)
         IN  MergeSections(
                IF e # 0
                THEN [existing_sections EXCEPT
                        ![e].items = MergeItems(@, new_sec.items),
                        ![e].subsections = MergeSubsections(@, new_sec.subsections),
                        ![e].tables = MergeSectionTables(@, new_sec.tables)]
                ELSE Append(existing_sections, new_sec),
                Tail(new_sections))

(***************************************************************************)
(* Content nodes of an annex.  A node is a record                          *)
(*   name    "p", "ul", "ol", "div" or "table"                             *)
(*   cls     its class attribute                                           *)
(*   text    the text of a p                                               *)
(*   kids    the li texts of a list, the p children [cls, text] of a div   *)
(*   grid    the rows of a table, each the sequence of its cell texts      *)
(*   parses  whether pandas.read_html accepts the table                    *)
(*   caption text of the preceding p.oj-ti-table of a table, "" if none    *)
(* The document has no text between its tags.                              *)
(***************************************************************************)
Node(name, cls, text, kids, grid, parses, caption) ==
    [name |-> name, cls |-> cls, text |-> text, kids |-> kids, grid |-> grid,
     parses |-> parses, caption |-> caption]

PNode(cls, text) == Node("p", cls, text, <<>>, <<>>, FALSE, <<>>)
ListNode(name, lis) == Node(name, "", <<>>, lis, <<>>, FALSE, <<>>)
DivNode(ps) == Node("div", "", <<>>, ps, <<>>, FALSE, <<>>)
TableNode(grid, parses, caption) == Node("table", "", <<>>, <<>>, grid, parses, caption)

\* node.get_text()
GetText(node) ==
    CASE node.name = "p" -> node.text
      [] node.name \in {"ul", "ol"} -> Concat(node.kids)
      [] node.name = "div" -> Concat([i \in 1..Len(node.kids) |-> node.kids[i].text])
      [] OTHER -> Concat([i \in 1..Len(node.grid) |-> Concat(node.grid[i])])

\* re.fullmatch(r'\d+\.', txt)
IsOrphanNumber(txt) ==
    Len(txt) >= 2 /\ DigitRun(txt) = Len(txt) - 1 /\ txt[Len(txt)] = "."

\* Index of the first node after position i whose stripped text is not empty, 0 if none.
NextNonEmpty(content_nodes, i) ==
    IF \E j \in (i + 1)..Len(content_nodes) : Strip(GetText(content_nodes[j])) # <<>>
    THEN CHOOSE j \in (i + 1)..Len(content_nodes) :
            /\ Strip(GetText(content_nodes[j])) # <<>>
            /\ \A k \in (i + 1)..(j - 1) : Strip(GetText(content_nodes[k])) = <<>>
    ELSE 0

\* _preprocess_orphan_numbers, from node i on
RECURSIVE PreprocessFrom(_, _)
PreprocessFrom(content_nodes, i) ==
    IF i > Len(content_nodes) THEN <<>>
    ELSE LET txt == Strip(GetText(content_nodes[i]))
             j == NextNonEmpty(content_nodes, i)
         IN  IF IsOrphanNumber(txt) /\ j # 0
             THEN <<txt \o <<" ">> \o Strip(GetText(content_nodes[j]))>>
                     \o PreprocessFrom(content_nodes, j + 1)
             ELSE <<txt>> \o PreprocessFrom(content_nodes, i + 1)

PreprocessOrphanNumbers(content_nodes) == PreprocessFrom(content_nodes, 1)

(***************************************************************************)
(* _extract_annexes: one annex header                                      *)
(***************************************************************************)
AnnexWord == <<"A", "N", "N", "E", "X">>
AnnexIdChars == {"I", "V", "X", "L", "C"}

\* Offset of the first occurrence of w in s (0-based), -1 if there is none.
FindFirst(s, w) ==
    IF IsSubstring(w, s)
    THEN CHOOSE i \in 0..(Len(s) - Len(w)) :
            /\ SubSeq(s, i + 1, i + Len(w)) = w
            /\ \A j \in 0..(i - 1) : SubSeq(s, j + 1, j + Len(w)) # w
    ELSE -1

\* group(1) of re.search(r'ANNEX(?:\s+([IVXLC]+|[A-Z]))?', header_text), <<>> when
\* there is no match or the group is absent.
AnnexIdGroup(header_text) ==
    LET at == FindFirst(header_text, AnnexWord) IN
    IF at < 0 THEN <<>>
    ELSE LET r == Drop(header_text, at + Len(AnnexWord))
             k == SpaceRun(r)
             t == Drop(r, k)
             n == RunLen(t, AnnexIdChars)
         IN  IF k = 0 \/ t = <<>> THEN <<>>
             ELSE IF n >= 1 THEN Take(t, n)
             ELSE IF IsUpper(t[1]) THEN <<t[1]>>
             ELSE <<>>

\* group(1) of re.search(r'ANNEX\s+<id>\s*(.+)' or r'ANNEX\s*(.+)', header_text),
\* stripped; "" without a match.  Header texts hold the word ANNEX once.
AnnexSubtitle(header_text, annex_id) ==
    LET at == FindFirst(header_text, AnnexWord) IN
    IF at < 0 THEN <<>>
    ELSE LET r == Drop(header_text, at + Len(AnnexWord)) IN
         IF annex_id = <<>>
         THEN LET m == SpacesThenAny(r, 0) IN IF m.ok THEN Strip(m.g) ELSE <<>>
         ELSE LET k == SpaceRun(r)
                  t == Drop(r, k)
              IN  IF k >= 1 /\ StartsWith(t, annex_id)
                  THEN LET m == SpacesThenAny(Drop(t, Len(annex_id)), 0) IN
                       IF m.ok THEN Strip(m.g) ELSE <<>>
                  ELSE <<>>

RealWorldKey == <<"t", "e", "s", "t", "i", "n", "g", " ", "i", "n", " ", "r", "e", "a", "l", " ",
                  "w", "o", "r", "l", "d", " ", "c", "o", "n", "d", "i", "t", "i", "o", "n", "s">>
Article60Key == <<"a", "r", "t", "i", "c", "l", "e", " ", "6", "0">>

RomanNumerals == << <<"I">>, <<"I", "I">>, <<"I", "I", "I">>, <<"I", "V">>, <<"V">>,
                    <<"V", "I">>, <<"V", "I", "I">>, <<"V", "I", "I", "I">>, <<"I", "X">>,
                    <<"X">>, <<"X", "I">>, <<"X", "I", "I">>, <<"X", "I", "I", "I">>,
                    <<"X", "I", "V">>, <<"X", "V">> >>

\* Step 3: the identifier, title and subtitle of the header found at position oi.
AnnexHeader(raw_header, oi) ==
    LET header_text == Strip(raw_header)
        g == AnnexIdGroup(header_text)
        normalized_text == ToLower(CollapseSpaces(header_text))
    IN  IF g # <<>>
        THEN [annex_id |-> g, title |-> AnnexWord \o <<" ">> \o g,
              subtitle |-> AnnexSubtitle(header_text, g)]
        ELSE IF IsSubstring(RealWorldKey, normalized_text)
                /\ IsSubstring(Article60Key, normalized_text)
        THEN [annex_id |-> <<"I", "X">>, title |-> AnnexWord \o <<" ", "I", "X">>,
              subtitle |-> header_text]
        ELSE LET id == IF oi <= Len(RomanNumerals) THEN RomanNumerals[oi] ELSE IntToStr(oi) IN
             [annex_id |-> id, title |-> AnnexWord \o <<" ">> \o id,
              subtitle |-> AnnexSubtitle(header_text, <<>>)]

\* The classes of the documents' p elements whose name contains 'oj-sti'.
StiClasses == {"oj-sti-art", "oj-sti-annex"}

\* Step 5: whether a p among the first three nodes is taken for a restated subtitle.
LooksLikeSubtitle(node, i) ==
    LET node_text == NormalizeText(GetText(node)) IN
    \/ node.cls \in StiClasses
    \/ /\ i = 0
       /\ Len(node_text) > 10
       /\ Len(node_text) < 200
       /\ ~DASH(node_text).ok
       /\ ~NUMBER(node_text).ok
       /\ ~LETTER(node_text).ok
       /\ ~ROMAN(node_text).ok
       /\ ~HIER(node_text).ok
       /\ ~(Strip(node_text) # <<>> /\ Strip(node_text)[Len(Strip(node_text))] = ":")

\* The loop over content_nodes[:3] from 0-based index i: [remove, subtitle].
RECURSIVE SubtitleScan(_, _, _)
SubtitleScan(content_nodes, i, acc) ==
    IF i >= Len(content_nodes) \/ i >= 3 THEN acc
    ELSE LET node == content_nodes[i + 1] IN
         IF node.name # "p" THEN SubtitleScan(content_nodes, i + 1, acc)
         ELSE IF LooksLikeSubtitle(node, i)
         THEN SubtitleScan(content_nodes, i + 1,
                 [remove |-> i + 1,
                  subtitle |-> IF acc.subtitle = <<>> /\ i = 0
                               THEN NormalizeText(GetText(node)) ELSE acc.subtitle])
         ELSE acc

FilterSubtitleNodes(content_nodes, subtitle) ==
    SubtitleScan(content_nodes, 0, [remove |-> 0, subtitle |-> subtitle])

QuoteChars == {"'", "\""}

\* s.strip("'\"")
RECURSIVE StripQuotes(_)
StripQuotes(s) ==
    IF s # <<>> /\ Head(s) \in QuoteChars THEN StripQuotes(Tail(s))
    ELSE IF s # <<>> /\ s[Len(s)] \in QuoteChars THEN StripQuotes(Take(s, Len(s) - 1))
    ELSE s

GrseqClass == "oj-ti-grseq-1"

\* The line a p is fed as: a p of class oj-ti-grseq-1 ("A. 'General'") that
\* matches ([A-Z])\.\s*['"]?(.+?)['"]?$ gives the numbered line
\* "<position of the letter in the alphabet>. <heading>", any other p its text.
ParagraphLine(cls, text) ==
    IF cls = GrseqClass /\ Len(text) >= 2 /\ IsUpper(text[1]) /\ text[2] = "."
       /\ SpacesThenAny(Drop(text, 2), 0).ok
    THEN IntToStr(LetterIndex(text[1])) \o <<".", " ">>
            \o StripQuotes(SpacesThenAny(Drop(text, 2), 0).g)
    ELSE text

\* ^\d+\.?$ on the stripped first cell
IsRowNumber(cell) ==
    (DigitRun(Strip(cell)) >= 1)
    /\ \/ DigitRun(Strip(cell)) = Len(Strip(cell))
       \/ /\ DigitRun(Strip(cell)) = Len(Strip(cell)) - 1
          /\ Strip(cell)[Len(Strip(cell))] = "."

\* The cells of a row after the first, normalised and joined by spaces.
RowContent(cells) ==
    Join([i \in 1..(Len(cells) - 1) |-> NormalizeText(cells[i + 1])], <<" ">>)

\* The line a row of a table that pandas rejected is fed as; "" when the row is
\* passed over.
FallbackRowLine(cells) ==
    IF Len(cells) >= 2 /\ NormalizeText(cells[1]) # <<>>
       /\ IsRowNumber(NormalizeText(cells[1])) /\ RowContent(cells) # <<>>
    THEN NormalizeText(cells[1]) \o <<" ">> \o RowContent(cells)
    ELSE <<>>

\* Step 6, the texts node i (0-based) of content_nodes hands to feed_text or
\* feed_list, in order; "" stands for a text the guards (if text:, if li_text:,
\* if content:) keep from the builder.  A p takes the text at the same position
\* of processed_texts when there is one.
NodeLines(node, i, processed_texts) ==
    CASE node.name = "p" ->
            <<ParagraphLine(node.cls,
                            IF i < Len(processed_texts) THEN processed_texts[i + 1]
                            ELSE NormalizeText(GetText(node)))>>
      [] node.name \in {"ul", "ol"} ->
            [k \in 1..Len(node.kids) |-> NormalizeText(node.kids[k])]
      [] node.name = "table" ->
            [k \in 1..Len(node.grid) |-> FallbackRowLine(node.grid[k])]
      [] OTHER ->
            [k \in 1..Len(node.kids) |->
                ParagraphLine(node.kids[k].cls, NormalizeText(node.kids[k].text))]

\* builder.feed_text / builder.feed_list on each text that is not "".
RECURSIVE FeedLines(_, _)
FeedLines(b, lines) ==
    IF lines = <<>> THEN b
    ELSE FeedLines(IF Head(lines) = <<>> THEN b ELSE FeedList(b, Head(lines)),
                   Tail(lines))

\* Step 6 for one node: a table pandas accepts is added to the current
\* section, every other node is fed as text.
FeedNode(b, node, i, processed_texts) ==
    IF node.name = "table" /\ node.parses
    THEN AddTableToCurrentSection(b, [caption |-> node.caption, rows |-> node.grid])
    ELSE FeedLines(b, NodeLines(node, i, processed_texts))

RECURSIVE FeedNodes(_, _, _, _)
FeedNodes(b, content_nodes, i, processed_texts) ==
    IF i >= Len(content_nodes) THEN b
    ELSE FeedNodes(FeedNode(b, content_nodes[i + 1], i, processed_texts),
                   content_nodes, i + 1, processed_texts)

\* Steps 5 (orphan numbers) and 6 of one header: the sections flush() returns
\* for the content nodes left after the subtitle nodes were removed.
BuildSections(content_nodes) ==
    FlushResult(FeedNodes(NewBuilder, content_nodes, 0, PreprocessOrphanNumbers(content_nodes)))

\* Whether text is empty or a bare em dash after strip().
IsEmptyOrDash(item) == Strip(item) = <<>> \/ Strip(item) = <<EM>>

\* _validate_annex: TRUE when it raises ValueError (rules 1 and 2; rule 3, the
\* word-count ratio, only prints a warning).
ValidateAnnexRaises(annex) ==
    LET secs == annex.sections
        has_content == \E i \in 1..Len(secs) :
                          \E k \in 1..Len(secs[i].items) : Strip(secs[i].items[k]) # <<>>
    IN  \/ secs = <<>>
        \/ ~has_content
        \/ \E i \in 1..Len(secs) : \E k \in 1..Len(secs[i].items) : IsEmptyOrDash(secs[i].items[k])

HasDuplicates(s) == \E i, j \in 1..Len(s) : i < j /\ s[i] = s[j]

\* _validate_annex_uniqueness without its inner loop over the sections.
ValidateAnnexIdsOnly(as) ==
    HasDuplicates([i \in 1..Len(as) |-> as[i].annex_id])

\* _validate_annex_uniqueness: TRUE when it raises ValueError.
ValidateAnnexUniquenessRaises(as) ==
    \/ HasDuplicates([i \in 1..Len(as) |-> as[i].annex_id])
    \/ \E a \in 1..Len(as) :
          HasDuplicates([i \in 1..Len(as[a].sections) |-> as[a].sections[i].section_id])

\* list.sort(key=lambda a: a["order_index"]): stable, ascending.
RECURSIVE SortByOrderIndex(_)
SortByOrderIndex(s) ==
    IF s = <<>> THEN <<>>
    ELSE LET init == SortByOrderIndex(Take(s, Len(s) - 1))
             x == s[Len(s)]
             n == Cardinality({i \in 1..Len(init) : init[i].order_index <= x.order_index})
         IN  Take(init, n) \o <<x>> \o Drop(init, n)

AnnexIndex(amap, annex_id) ==
    IF \E i \in 1..Len(amap) : amap[i].annex_id = annex_id
    THEN CHOOSE i \in 1..Len(amap) : amap[i].annex_id = annex_id
    ELSE 0

\* Step 7 for the header h found at position oi, whose nodes gave the sections
\* secs: merge into the annex already in the map, or add a new annex.  A
\* ValueError of _validate_annex is caught and printed by the caller; the annex
\* is stored either way.
StoreSections(amap, h, subtitle, secs, oi) ==
    IF AnnexIndex(amap, h.annex_id) # 0
    THEN [amap EXCEPT ![AnnexIndex(amap, h.annex_id)].sections = MergeSections(@, secs)]
    ELSE Append(amap, [annex_id |-> h.annex_id, title |-> h.title,
                       subtitle |-> subtitle, sections |-> secs,
                       order_index |-> oi])

\* Steps 4 to 7 for the header h: f is what the subtitle filter decided.
StoreFiltered(amap, h, f, content_nodes, oi) ==
    StoreSections(amap, h, f.subtitle, BuildSections(Drop(content_nodes, f.remove)), oi)

StoreHeader(amap, h, content_nodes, oi) ==
    StoreFiltered(amap, h, FilterSubtitleNodes(content_nodes, h.subtitle), content_nodes, oi)

\* One iteration of the loop over the headers: steps 3 to 7.
StoreAnnex(amap, raw_header, content_nodes, oi) ==
    StoreHeader(amap, AnnexHeader(raw_header, oi), content_nodes, oi)

\* Steps 9 and 10 without the final check: the sorted list as it is.
ReturnedAnnexesUnchecked(amap) == SortByOrderIndex(amap)

\* Steps 9 and 10: the list _extract_annexes returns; [] when the uniqueness
\* check raises (the outer except) or no header was found.
ReturnedAnnexes(amap) ==
    LET sorted == SortByOrderIndex(amap) IN
    IF ValidateAnnexUniquenessRaises(sorted) THEN <<>> ELSE sorted

(***************************************************************************)
(* Annex extraction of one document: its annex headers in document order,  *)
(* each with the sibling nodes that follow it.  At most MaxHeaders headers *)
(* and MaxNodes content nodes in the whole document.                       *)
(***************************************************************************)
MaxHeaders == 2
MaxNodes == 3

HdrAnnexI == <<"A", "N", "N", "E", "X", " ", "I">>
HdrAnnex == <<"A", "N", "N", "E", "X">>
HeaderTexts == {HdrAnnexI, HdrAnnex}

AnnexNodes ==
    { PNode("oj-normal", TxtNum1),
      PNode("oj-normal", TxtDashDash),
      PNode("oj-normal", TxtLetB),
      PNode("oj-normal", TxtSecA),
      PNode("oj-normal", TxtPlain) }

NodeSeqs(n) == UNION {[1..k -> AnnexNodes] : k \in 0..n}

InitAnnex ==
    /\ pc = "headers"
    /\ IdleBuilder
    /\ IdleAnnex
    /\ IdleArticle
    /\ IdleRun
    /\ IdleContent
    /\ IdleIngest
    /\ IdleMerge

\* One iteration of the loop over the headers.
ProcessHeader ==
    /\ pc = "headers"
    /\ order_index < MaxHeaders
    /\ \E raw_header \in HeaderTexts, content_nodes \in NodeSeqs(MaxNodes - nfeeds) :
       \E h \in {AnnexHeader(raw_header, order_index + 1)} :
       \E f \in {FilterSubtitleNodes(content_nodes, h.subtitle)} :
       \E secs \in {BuildSections(Drop(content_nodes, f.remove))} :
       \E stored \in {StoreSections(annex_map, h, f.subtitle, secs, order_index + 1)} :
          /\ annex_map' = stored
          /\ built' = Append(built,
                [annex_id |-> h.annex_id,
                 sections |-> secs,
                 merged |-> AnnexIndex(annex_map, h.annex_id) # 0,
                 raised |-> AnnexIndex(annex_map, h.annex_id) = 0 /\ secs # <<>>
                              /\ ValidateAnnexRaises(stored[Len(stored)])])
          /\ nfeeds' = nfeeds + Len(content_nodes)
    /\ order_index' = order_index + 1
    /\ UNCHANGED <<pc, sections, current_section, current_subsection, flushed, lastop,
                   annexes, articleVars, runVars, contentVars, ingestVars, mergeVars>>

\* The end of the loop: sort, final uniqueness check, return.
FinishAnnexes ==
    /\ pc = "headers"
    /\ pc' = "done"
    /\ annexes' = ReturnedAnnexes(annex_map)
    /\ UNCHANGED <<builderVars, annex_map, order_index, built, articleVars, runVars, contentVars, ingestVars, mergeVars>>

NextAnnex == ProcessHeader \/ FinishAnnexes

SpecAnnex == InitAnnex /\ [][NextAnnex]_vars

(***************************************************************************)
(* Properties of annex extraction (SpecAnnex)                              *)
(***************************************************************************)
SectionIds(secs) == [i \in 1..Len(secs) |-> secs[i].section_id]
AnnexIds(as) == [i \in 1..Len(as) |-> as[i].annex_id]

\* C1: in every list of annexes _extract_annexes returns, the annex
\* identifiers are pairwise distinct and, within each annex, the section
\* identifiers are pairwise distinct.
C1_UniqueIds ==
    pc = "done" =>
        /\ \A i, j \in 1..Len(annexes) :
              i # j => annexes[i].annex_id # annexes[j].annex_id
        /\ \A a \in 1..Len(annexes) :
              \A i, j \in 1..Len(annexes[a].sections) :
                 i # j => annexes[a].sections[i].section_id # annexes[a].sections[j].section_id

\* C1 witness: a returned list with two annexes, one of them with two sections.
C1_Witness ==
    /\ pc = "done"
    /\ Len(annexes) = 2
    /\ \E a \in 1..Len(annexes) : Len(annexes[a].sections) = 2

\* The items of a section list, those of the subsections included.
AllItems(secs) ==
    UNION {Range(secs[i].items) : i \in 1..Len(secs)}
    \cup UNION {UNION {Range(secs[i].subsections[k].items) :
                          k \in 1..Len(secs[i].subsections)} : i \in 1..Len(secs)}

\* C2: every item of every emitted annex section, and every item of every
\* subsection, is non-empty after trimming and is not the bare dash.
C2_NoEmptyOrDashItems ==
    pc = "done" =>
        \A a \in 1..Len(annexes) :
           \A item \in AllItems(annexes[a].sections) :
              Strip(item) # <<>> /\ Strip(item) # <<EM>>

HasBadSectionItem(annex) ==
    \E i \in 1..Len(annex.sections) :
       \E k \in 1..Len(annex.sections[i].items) : IsEmptyOrDash(annex.sections[i].items[k])

\* C3: an annex built with a section item that is empty or a bare dash after
\* trimming is not emitted: no annex with its identifier is in the result.
C3_BadAnnexNotEmitted ==
    pc = "done" =>
        \A m \in 1..Len(annex_map) :
           HasBadSectionItem(annex_map[m]) =>
              \A a \in 1..Len(annexes) : annexes[a].annex_id # annex_map[m].annex_id

\* The section identifiers built from the fragments of annex id.
FragmentSectionIds(id) ==
    UNION {Range(SectionIds(built[i].sections)) :
             i \in {k \in 1..Len(built) : built[k].annex_id = id}}

\* C4: when two headers of a document identify the same annex, the result has
\* exactly one annex with that identifier, and the set of its section
\* identifiers is the union of those built from the two fragments.
C4_RepeatedHeaderMerged ==
    pc = "done" =>
        \A i, j \in 1..Len(built) :
           i < j /\ built[i].annex_id = built[j].annex_id =>
              /\ Cardinality({a \in 1..Len(annexes) :
                                annexes[a].annex_id = built[i].annex_id}) = 1
              /\ \A a \in 1..Len(annexes) :
                    annexes[a].annex_id = built[i].annex_id =>
                       Range(SectionIds(annexes[a].sections))
                          = FragmentSectionIds(built[i].annex_id)

\* C4 witness of the merge itself: a repeated header whose fragment brought a
\* new section, with the single merged annex returned.
C4_MergeReached ==
    /\ pc = "done"
    /\ Len(annexes) = 1
    /\ \E i, j \in 1..Len(built) :
          /\ i < j
          /\ built[i].annex_id = built[j].annex_id
          /\ built[j].merged
          /\ built[i].sections # <<>>
          /\ built[j].sections # <<>>
          /\ Range(SectionIds(built[j].sections)) \ Range(SectionIds(built[i].sections)) # {}

\* Some annex of the map holds two sections with one identifier, or two
\* annexes of the map have one identifier.
HasDuplicateIds(amap) ==
    \/ \E i, j \in 1..Len(amap) : i < j /\ amap[i].annex_id = amap[j].annex_id
    \/ \E a \in 1..Len(amap) :
          \E i, j \in 1..Len(amap[a].sections) :
             i < j /\ amap[a].sections[i].section_id = amap[a].sections[j].section_id

\* C12: when the annexes built and merged for a document hold a duplicate
\* section identifier within one annex (or a duplicate annex identifier), annex
\* extraction returns the empty list, never a list with part of the annexes.
C12_DuplicatesGiveNothing ==
    pc = "done" /\ HasDuplicateIds(annex_map) => annexes = <<>>

\* C12 witness: two annexes were built, one of them without a duplicate and
\* one with a duplicated section identifier, and nothing was returned.
C12_Witness ==
    /\ pc = "done"
    /\ Len(annex_map) = 2
    /\ HasDuplicateIds(annex_map)
    /\ \E a \in 1..Len(annex_map) : ~HasDuplicateIds(<<annex_map[a]>>)
    /\ annexes = <<>>

(***************************************************************************)
(* Properties of the SectionBuilder (SpecBuilder)                          *)
(***************************************************************************)
\* Sections keyed id are the same, at the same positions, in before and after.
SectionsKeyedUnchanged(before, after, id) ==
    /\ \A i \in 1..Len(after) :
          after[i].section_id = id => i <= Len(before) /\ before[i] = after[i]
    /\ \A i \in 1..Len(before) :
          before[i].section_id = id => i <= Len(after) /\ before[i] = after[i]

\* C10: a line "<p>. <c>. <content>" is classified as hierarchical before
\* plain numbered: on a fresh builder "1. 1. Nested clause text" gives exactly
\* one section, "1.1" with heading "Nested clause text"; in any state such a
\* feed neither creates nor modifies a section keyed "<p>".
C10_HierarchicalFirst ==
    lastop.op = "feed_text" /\ HIER(Strip(lastop.arg)).ok =>
        /\ SectionsKeyedUnchanged(lastop.before.sections, sections,
                                  HIER(Strip(lastop.arg)).g1)
        /\ lastop.arg = TxtNested /\ lastop.before = NewBuilder =>
              sections = <<[section_id |-> <<"1", ".", "1">>,
                            heading |-> <<"N", "e", "s", "t", "e", "d", " ", "c", "l", "a",
                                          "u", "s", "e", " ", "t", "e", "x", "t">>,
                            list_type |-> "ordered", items |-> <<>>,
                            subsections |-> <<>>, tables |-> <<>>]>>

\* C10 witness: a hierarchical line fed while a section keyed by its parent
\* number exists.
C10_Witness ==
    /\ lastop.op = "feed_text"
    /\ lastop.arg = TxtHierA
    /\ \E i \in 1..Len(lastop.before.sections) :
          lastop.before.sections[i].section_id = <<"1">>
    /\ \E i \in 1..Len(sections) : sections[i].section_id = <<"1", ".", "1">>

(***************************************************************************)
(* Articles and paragraphs.  An element of the article's HTML is a p (a    *)
(* class and a text), a table (rows of cells) or a div (child elements).   *)
(* A cell is <td><p class="oj-normal">text</p></td> (wrapped) or           *)
(* <td>text</td>.  NL is the character "\n"; None is Python's None.        *)
(***************************************************************************)
NL == "NL"
BlankLine == <<NL, NL>>
None == <<"None">>
NormalClass == "oj-normal"

Cell(wrapped, text) == [wrapped |-> wrapped, text |-> text]
Elem(name, cls, text, kids, rows) ==
    [name |-> name, cls |-> cls, text |-> text, kids |-> kids, rows |-> rows]
PElem(cls, text) == Elem("p", cls, text, <<>>, <<>>)
TableElem(rows) == Elem("table", "", <<>>, <<>>, rows)
DivElem(kids) == Elem("div", "", <<>>, kids, <<>>)

\* The cells of a table in document order.
CellsOf(rows) == Concat(rows)

\* element.get_text(): the text strings below the element, concatenated.
RECURSIVE ElemText(_)
ElemText(e) ==
    IF e.name = "p" THEN e.text
    ELSE IF e.name = "table"
    THEN Concat([i \in 1..Len(CellsOf(e.rows)) |-> CellsOf(e.rows)[i].text])
    ELSE Concat([i \in 1..Len(e.kids) |-> ElemText(e.kids[i])])

\* element.get_text(strip=True): every text string stripped, then concatenated.
RECURSIVE ElemTextStripped(_)
ElemTextStripped(e) ==
    IF e.name = "p" THEN Strip(e.text)
    ELSE IF e.name = "table"
    THEN Concat([i \in 1..Len(CellsOf(e.rows)) |-> Strip(CellsOf(e.rows)[i].text)])
    ELSE Concat([i \in 1..Len(e.kids) |-> ElemTextStripped(e.kids[i])])

\* The p.oj-normal elements at or below an element, in document order, each
\* with its text and whether it has a table among its ancestors.
RECURSIVE SelfOrBelowPs(_)
SelfOrBelowPs(e) ==
    IF e.name = "p"
    THEN IF e.cls = NormalClass THEN <<[text |-> e.text, in_table |-> FALSE]>> ELSE <<>>
    ELSE IF e.name = "table"
    THEN LET cs == SelectSeq(CellsOf(e.rows), LAMBDA c : c.wrapped)
         IN  [i \in 1..Len(cs) |-> [text |-> cs[i].text, in_table |-> TRUE]]
    ELSE Concat([i \in 1..Len(e.kids) |-> SelfOrBelowPs(e.kids[i])])

\* element.find_all('p', class_='oj-normal'): descendants only.
FindAllNormalP(e) == IF e.name = "p" THEN <<>> ELSE SelfOrBelowPs(e)

\* element.find_all('table'): descendants only.
FindAllTables(e) ==
    IF e.name = "div" THEN SelectSeq(e.kids, LAMBDA k : k.name = "table") ELSE <<>>

\* re.match(r'^\s*(\d+)\.\s*', s): g1 is the number, rest what follows the match.
ParagraphNumberMatch(s) ==
    LET t == LStrip(s)
        d == DigitRun(t)
    IN  IF d >= 1 /\ Len(t) > d /\ t[d + 1] = "."
        THEN [ok |-> TRUE, g1 |-> Take(t, d), rest |-> LStrip(Drop(t, d + 1))]
        ELSE [ok |-> FALSE, g1 |-> <<>>, rest |-> <<>>]

\* re.match(r'^\d+\.\s*', s) and re.match(r'^(\d+)\.\s*', s)
LeadingNumber(s) ==
    LET d == DigitRun(s)
    IN  IF d >= 1 /\ Len(s) > d /\ s[d + 1] = "."
        THEN [ok |-> TRUE, g1 |-> Take(s, d)]
        ELSE [ok |-> FALSE, g1 |-> <<>>]

ParenChars == {"(", ")"}

\* str.strip('()')
RECURSIVE StripParens(_)
StripParens(s) ==
    IF s # <<>> /\ Head(s) \in ParenChars THEN StripParens(Tail(s))
    ELSE IF s # <<>> /\ s[Len(s)] \in ParenChars THEN StripParens(Take(s, Len(s) - 1))
    ELSE s

\* re.sub(r'[()]', '', symbol).strip()
RemoveParens(symbol) == Strip(SelectSeq(symbol, LAMBDA c : c \notin ParenChars))

\* A ContentItem; a chapeau carries no element_id and no subparagraph_id.
Item(type, id, content, oi) ==
    [type |-> type, element_id |-> id, subparagraph_id |-> id,
     content |-> content, order_index |-> oi]

\* _parse_subparagraphs: the rows with at least two cells whose first two
\* cells hold a p.oj-normal and whose number starts with "(".
RECURSIVE ParseSubparagraphs(_, _)
ParseSubparagraphs(rows, acc) ==
    IF rows = <<>> THEN acc
    ELSE LET cells == Head(rows)
             usable == /\ Len(cells) >= 2
                       /\ cells[1].wrapped
                       /\ StartsWith(Strip(cells[1].text), <<"(">>)
                       /\ cells[2].wrapped
         IN  IF usable
             THEN ParseSubparagraphs(Tail(rows),
                      Append(acc, Item("definition", StripParens(Strip(cells[1].text)),
                                       NormalizeText(Strip(cells[2].text)), Len(acc) + 1)))
             ELSE ParseSubparagraphs(Tail(rows), acc)

\* The rendering of an item in content_full.
RenderItem(item) ==
    IF item.type = "chapeau" THEN item.content
    ELSE <<"(">> \o item.subparagraph_id \o <<")", " ">> \o item.content

RenderItems(items) == Join([i \in 1..Len(items) |-> RenderItem(items[i])], BlankLine)

\* The metadata of a paragraph: the definitions branch sets extracted_at and
\* is_definitions, the other branches the three counts; an absent key is None.
Metadata(extracted_at, is_definitions, total, chapeaux, subparagraphs) ==
    [extracted_at |-> extracted_at, is_definitions |-> is_definitions,
     total_elements |-> total, chapeau_count |-> chapeaux,
     subparagraph_count |-> subparagraphs]

CountType(items, type) == Cardinality({i \in 1..Len(items) : items[i].type = type})

CountsMetadata(items) ==
    Metadata(None, None, Len(items), CountType(items, "chapeau"),
             CountType(items, "subparagraph"))

Paragraph(number, ordered_contents, content_full, metadata) ==
    [paragraph_number |-> number, ordered_contents |-> ordered_contents,
     content_full |-> content_full, metadata |-> metadata]

\* The value standing for _parse_paragraph's None, returned exactly when no
\* content was collected.
NoParagraph == Paragraph(None, <<>>, <<>>, CountsMetadata(<<>>))
IsNone(paragraph) == paragraph.ordered_contents = <<>>

\* ordered_contents.append(...) with processed_texts.add(...); order_index is
\* current_order_index, one more than the number of items appended so far.
AddContent(acc, type, id, raw) ==
    [items |-> Append(acc.items, Item(type, id, NormalizeText(raw), Len(acc.items) + 1)),
     seen |-> acc.seen \cup {raw}]

\* The loop of _parse_paragraph over the rows of the tables below the element.
RECURSIVE ParseTableRows(_, _, _)
ParseTableRows(acc, rows, is_definition) ==
    IF rows = <<>> THEN acc
    ELSE LET cells == Head(rows)
             content == Strip(cells[2].text)
         IN  IF Len(cells) = 2 /\ content \notin acc.seen
             THEN ParseTableRows(
                      AddContent(acc, IF is_definition THEN "definition" ELSE "subparagraph",
                                 RemoveParens(Strip(cells[1].text)), content),
                      Tail(rows), is_definition)
             ELSE ParseTableRows(acc, Tail(rows), is_definition)

\* The loop of _parse_paragraph over the p.oj-normal elements: p != first_p
\* compares the elements' name, attributes and contents.
RECURSIVE ParseOtherPs(_, _, _)
ParseOtherPs(acc, ps, first_p) ==
    IF ps = <<>> THEN acc
    ELSE LET p == Head(ps)
             text == Strip(p.text)
         IN  IF p.text # first_p.text /\ ~p.in_table /\ text # <<>> /\ text \notin acc.seen
             THEN ParseOtherPs(AddContent(acc, "chapeau", None, text), Tail(ps), first_p)
             ELSE ParseOtherPs(acc, Tail(ps), first_p)

\* _is_definition_article testing for the title "Definitions" itself.
IsDefinitionArticleExact(title) == title = <<"D", "e", "f", "i", "n", "i", "t", "i", "o", "n", "s">>

\* _is_definition_article
IsDefinitionArticle(title) ==
    title # <<>> /\ IsSubstring(<<"d", "e", "f", "i", "n", "i", "t", "i", "o", "n">>,
                                ToLower(title))

\* _parse_paragraph; NoParagraph when nothing was collected.
ParseParagraph(paragraph_element, title) ==
    LET ps == FindAllNormalP(paragraph_element)
        first_p == IF ps = <<>> THEN [text |-> None, in_table |-> FALSE] ELSE ps[1]
        m == IF ps = <<>> THEN ParagraphNumberMatch(<<>>) ELSE ParagraphNumberMatch(first_p.text)
        text == Strip(m.rest)
        empty == [items |-> <<>>, seen |-> {}]
        acc1 == IF m.ok /\ text # <<>> THEN AddContent(empty, "chapeau", None, text) ELSE empty
        tables == FindAllTables(paragraph_element)
        acc2 == ParseTableRows(acc1, Concat([i \in 1..Len(tables) |-> tables[i].rows]),
                               IsDefinitionArticle(title))
        acc3 == ParseOtherPs(acc2, ps, first_p)
    IN  IF acc3.items = <<>> THEN NoParagraph
        ELSE Paragraph(IF m.ok THEN m.g1 ELSE None, acc3.items, RenderItems(acc3.items),
                       CountsMetadata(acc3.items))

\* The definitions branch with the lead-in chapeau appended after the definitions.
DefinitionsParagraphChapeauLast(intro_text, definition_tables, now) ==
    LET sps == Concat([i \in 1..Len(definition_tables) |->
                          ParseSubparagraphs(definition_tables[i].rows, <<>>)])
        defs == [i \in 1..Len(sps) |->
                    Item("definition", sps[i].subparagraph_id, sps[i].content, i)]
        ordered_contents ==
            IF intro_text # None /\ intro_text # <<>>
            THEN Append(defs, Item("chapeau", None, intro_text, Len(defs) + 1)) ELSE defs
    IN  Paragraph(<<"1">>, ordered_contents, RenderItems(ordered_contents),
                  Metadata(now, TRUE, None, None, None))

\* The definitions branch of _extract_paragraphs: one paragraph numbered "1".
DefinitionsParagraph(intro_text, definition_tables, now) ==
    LET chapeau == IF intro_text # None /\ intro_text # <<>>
                   THEN <<Item("chapeau", None, intro_text, 1)>> ELSE <<>>
        sps == Concat([i \in 1..Len(definition_tables) |->
                          ParseSubparagraphs(definition_tables[i].rows, <<>>)])
        ordered_contents ==
            chapeau \o [i \in 1..Len(sps) |->
                           Item("definition", sps[i].subparagraph_id, sps[i].content,
                                Len(chapeau) + i)]
    IN  Paragraph(<<"1">>, ordered_contents, RenderItems(ordered_contents),
                  Metadata(now, TRUE, None, None, None))

\* The branch of _extract_paragraphs for an article without numbered
\* paragraphs: the normalized, non-empty texts of the direct p.oj-normal
\* children, one per line.
SingleParagraph(paragraph_elements) ==
    LET ps == SelectSeq(paragraph_elements,
                        LAMBDA e : /\ e.name = "p"
                                   /\ e.cls = NormalClass
                                   /\ NormalizeText(ElemText(e)) # <<>>)
        full_text == Join([i \in 1..Len(ps) |-> NormalizeText(ElemText(ps[i]))], <<NL>>)
    IN  IF full_text # <<>>
        THEN <<Paragraph(None, <<Item("chapeau", None, full_text, 1)>>, full_text,
                         Metadata(None, None, 1, 1, 0))>>
        ELSE <<>>

\* The loop of _extract_paragraphs over the elements of an article with
\* numbered paragraphs; st is [paragraphs, current_paragraph].
RECURSIVE NumberedLoop(_, _, _)
NumberedLoop(st, elements, title) ==
    IF elements = <<>>
    THEN IF ~IsNone(st.current_paragraph)
         THEN Append(st.paragraphs, st.current_paragraph) ELSE st.paragraphs
    ELSE LET element == Head(elements)
             text == ElemTextStripped(element)
             parsed == ParseParagraph(element, title)
             cur == st.current_paragraph
         IN  IF text = <<>> THEN NumberedLoop(st, Tail(elements), title)
             ELSE IF LeadingNumber(text).ok
             THEN NumberedLoop(
                      [paragraphs |-> IF ~IsNone(cur) THEN Append(st.paragraphs, cur)
                                      ELSE st.paragraphs,
                       current_paragraph |-> parsed],
                      Tail(elements), title)
             ELSE IF ~IsNone(cur) /\ ~IsNone(parsed)
             THEN NumberedLoop(
                      [paragraphs |-> st.paragraphs,
                       current_paragraph |->
                           Paragraph(cur.paragraph_number,
                                     cur.ordered_contents \o parsed.ordered_contents,
                                     Join(<<cur.content_full, parsed.content_full>>,
                                          BlankLine),
                                     cur.metadata)],
                      Tail(elements), title)
             ELSE NumberedLoop(st, Tail(elements), title)

\* The condition of the definitions branch of _extract_paragraphs: a
\* definitions title and a table directly under the article element.
TakesDefinitionsBranch(article_children, title) ==
    /\ IsDefinitionArticle(title)
    /\ \E i \in 1..Len(article_children) : article_children[i].name = "table"

\* _extract_paragraphs for the direct children of the article element; now is
\* the value datetime.now() returns in the definitions branch.
ExtractParagraphs(article_children, title, now) ==
    LET normal_ps == Concat([i \in 1..Len(article_children) |->
                                SelfOrBelowPs(article_children[i])])
        intro_text == IF normal_ps # <<>> /\ ~LeadingNumber(Strip(normal_ps[1].text)).ok
                      THEN NormalizeText(Strip(normal_ps[1].text)) ELSE None
        definition_tables == SelectSeq(article_children, LAMBDA e : e.name = "table")
        has_numbered_paragraphs ==
            \E i \in 1..Len(article_children) :
                LeadingNumber(ElemTextStripped(article_children[i])).ok
    IN  IF TakesDefinitionsBranch(article_children, title)
        THEN <<DefinitionsParagraph(intro_text, definition_tables, now)>>
        ELSE IF ~has_numbered_paragraphs THEN SingleParagraph(article_children)
        ELSE NumberedLoop([paragraphs |-> <<>>, current_paragraph |-> NoParagraph],
                          article_children, title)

\* int(s) for a string of digits
RECURSIVE StrToInt(_)
StrToInt(s) ==
    IF s = <<>> THEN 0
    ELSE 10 * StrToInt(Take(s, Len(s) - 1))
         + (CHOOSE d \in 0..9 : DigitSeq[d + 1] = s[Len(s)])

\* The elements directly under an article's div: the "Article n" line, the
\* title block, then the body.
ArticleWord == <<"A", "r", "t", "i", "c", "l", "e">>
ArticleElements(a) ==
    <<PElem("oj-ti-art", ArticleWord \o <<" ">> \o IntToStr(a.number)),
      DivElem(<<PElem("oj-sti-art", a.title)>>)>> \o a.children

\* The number, title and paragraphs _extract_articles computes for one article.
ArticleNumber(a) ==
    LET article_text == NormalizeText(ElemText(ArticleElements(a)[1]))
    IN  StrToInt(Strip(Drop(article_text, Len(ArticleWord))))
ArticleTitle(a) == NormalizeText(a.title)
ArticleParagraphs(a, now) == ExtractParagraphs(ArticleElements(a), ArticleTitle(a), now)

(***************************************************************************)
(* SpecArticle: _extract_articles applied to one article whose body is a   *)
(* sequence of at most MaxChildren elements.                               *)
(***************************************************************************)
MaxChildren == 3

TitleDefinitions == <<"D", "e", "f", "i", "n", "i", "t", "i", "o", "n", "s">>
TitleScope == <<"S", "c", "o", "p", "e">>
ArticleTitles == {TitleDefinitions, TitleScope}

TxtPara2 == <<"2", ".", " ", "c", "d">>
TxtOther == <<"r", "s">>
TxtKeyA == <<"(", "a", ")">>
TxtKeyB == <<"(", "b", ")">>
TxtController == <<"'", "c", "o", "n", "t", "r", "o", "l", "l", "e", "r", "'", " ",
                   "m", "e", "a", "n", "s", " ", ".", ".", ".">>

\* <table><tr><td>key</td><td>text</td></tr></table>, the cells wrapped in
\* p.oj-normal or not.
OneRowTable(wrapped, key, text) == TableElem(<< <<Cell(wrapped, key), Cell(wrapped, text)>> >>)

\* A table of three rows: (a) and (b) with the same text, (c) with the text
\* of the paragraph "1. ab" it stands in.
RepeatingTable ==
    TableElem(<< <<Cell(FALSE, TxtKeyA), Cell(FALSE, TxtOther)>>,
                 <<Cell(FALSE, TxtKeyB), Cell(FALSE, TxtOther)>>,
                 <<Cell(FALSE, <<"(", "c", ")">>), Cell(FALSE, <<"a", "b">>)>> >>)

ArticleElems ==
    { DivElem(<<PElem(NormalClass, TxtNum1)>>),
      DivElem(<<PElem(NormalClass, TxtNum1), OneRowTable(FALSE, TxtKeyA, TxtOther)>>),
      DivElem(<<PElem(NormalClass, TxtPara2)>>),
      DivElem(<<OneRowTable(FALSE, TxtKeyB, TxtPlain)>>),
      DivElem(<<PElem(NormalClass, TxtPlain), PElem(NormalClass, TxtOther)>>),
      PElem(NormalClass, TxtPlain),
      PElem(NormalClass, TxtNum1),
      DivElem(<<PElem(NormalClass, TxtNum1), RepeatingTable>>),
      OneRowTable(TRUE, TxtKeyA, TxtController),
      OneRowTable(FALSE, TxtKeyA, TxtController) }

Articles ==
    { [number |-> 1, title |-> t, children |-> c] :
          t \in ArticleTitles,
          c \in UNION {[1..k -> ArticleElems] : k \in 0..MaxChildren} }

InitArticle ==
    /\ pc = "article"
    /\ article \in Articles
    /\ paragraphs = <<>>
    /\ IdleBuilder
    /\ IdleAnnex
    /\ IdleRun
    /\ IdleContent
    /\ IdleIngest
    /\ IdleMerge

\* The body of the loop of _extract_articles for the article.
ExtractArticle ==
    /\ pc = "article"
    /\ pc' = "extracted"
    /\ paragraphs' = ArticleParagraphs(article, clock)
    /\ UNCHANGED <<article, builderVars, annexVars, runVars, contentVars, ingestVars, mergeVars>>

NextArticle == ExtractArticle

SpecArticle == InitArticle /\ [][NextArticle]_vars

(***************************************************************************)
(* Properties of article extraction (SpecArticle)                          *)
(***************************************************************************)
HasDirectTable(a) == \E i \in 1..Len(a.children) : a.children[i].name = "table"

\* C5: every article whose title contains "definition" (case-insensitive) has
\* a single paragraph, and every ContentItem of that paragraph has type
\* "definition" and a non-null element_id.
C5_DefinitionsOnly ==
    pc = "extracted" /\ IsDefinitionArticle(ArticleTitle(article)) =>
        /\ Len(paragraphs) = 1
        /\ \A i \in 1..Len(paragraphs[1].ordered_contents) :
              /\ paragraphs[1].ordered_contents[i].type = "definition"
              /\ paragraphs[1].ordered_contents[i].element_id # None

\* C5 as amended: every article whose title contains "definition" and that
\* has a table directly under it has a single paragraph, numbered "1", and
\* every ContentItem of that paragraph other than a leading chapeau has type
\* "definition" and a non-null element_id.
C5_DefinitionsAfterChapeau ==
    pc = "extracted" /\ IsDefinitionArticle(ArticleTitle(article)) /\ HasDirectTable(article) =>
        /\ Len(paragraphs) = 1
        /\ paragraphs[1].paragraph_number = <<"1">>
        /\ \A i \in 1..Len(paragraphs[1].ordered_contents) :
              \/ i = 1 /\ paragraphs[1].ordered_contents[i].type = "chapeau"
              \/ /\ paragraphs[1].ordered_contents[i].type = "definition"
                 /\ paragraphs[1].ordered_contents[i].element_id # None

\* C5 witness: a definitions article extracted into a chapeau from its
\* lead-in prose followed by a definition.
C5_Witness ==
    /\ pc = "extracted"
    /\ IsDefinitionArticle(ArticleTitle(article))
    /\ Len(article.children) = 2
    /\ article.children[1] = PElem(NormalClass, TxtPlain)
    /\ Len(paragraphs) = 1
    /\ Len(paragraphs[1].ordered_contents) = 2
    /\ paragraphs[1].ordered_contents[1].type = "chapeau"
    /\ paragraphs[1].ordered_contents[1].content = TxtPlain
    /\ paragraphs[1].ordered_contents[2].type = "definition"
    /\ paragraphs[1].ordered_contents[2].element_id = <<"a">>

\* C6: an article titled "Definitions" whose body is exactly one table with
\* the single row ("(a)", "'controller' means ...") yields exactly one
\* paragraph whose ordered_contents is exactly one ContentItem, of type
\* "definition" with element_id "a".
C6_SingleDefinition ==
    /\ pc = "extracted"
    /\ ArticleTitle(article) = TitleDefinitions
    /\ Len(article.children) = 1
    /\ article.children[1] \in {OneRowTable(TRUE, TxtKeyA, TxtController),
                                OneRowTable(FALSE, TxtKeyA, TxtController)}
    => /\ Len(paragraphs) = 1
       /\ Len(paragraphs[1].ordered_contents) = 1
       /\ paragraphs[1].ordered_contents[1].type = "definition"
       /\ paragraphs[1].ordered_contents[1].element_id = <<"a">>

\* C7: the content_full of every emitted paragraph is the blank-line join, in
\* order_index order, of its ordered_contents rendered: a chapeau as its
\* content, a subparagraph or definition as "(<element_id>) <content>".
C7_ContentFullRoundTrip ==
    pc = "extracted" =>
        \A k \in 1..Len(paragraphs) :
            paragraphs[k].content_full =
                Join([i \in 1..Len(paragraphs[k].ordered_contents) |->
                         LET item == SortByOrderIndex(paragraphs[k].ordered_contents)[i]
                         IN  IF item.type = "chapeau" THEN item.content
                             ELSE <<"(">> \o item.element_id \o <<")", " ">> \o item.content],
                     BlankLine)

\* C8: in every emitted paragraph the order_index values start at 1 and are
\* strictly increasing along ordered_contents, continuation content included.
C8_OrderIndexIncreasing ==
    pc = "extracted" =>
        \A k \in 1..Len(paragraphs) :
            LET items == paragraphs[k].ordered_contents
            IN  /\ items # <<>> => items[1].order_index = 1
                /\ \A i \in 1..(Len(items) - 1) :
                      items[i].order_index < items[i + 1].order_index

(***************************************************************************)
(* The full extraction, save_structured_data.  datetime.now() is read once *)
(* for every recital, once in the definitions branch of an article, once   *)
(* for every article and once for the metadata of the data; times[k] is    *)
(* the value the k-th read of a run returns.                               *)
(***************************************************************************)
\* re.match(r'\((\d+)\)', text): g1 is the number, rest what follows the match.
RecitalNumberMatch(text) ==
    LET d == DigitRun(Tail(text))
    IN  IF text # <<>> /\ Head(text) = "(" /\ d >= 1 /\ Len(text) > d + 1
           /\ text[d + 2] = ")"
        THEN [ok |-> TRUE, g1 |-> SubSeq(text, 2, d + 1), rest |-> Drop(text, d + 2)]
        ELSE [ok |-> FALSE, g1 |-> <<>>, rest |-> <<>>]

\* The loop of _extract_recitals; the recital appended after n others reads
\* times[n + 1].
RECURSIVE RecitalsLoop(_, _, _)
RecitalsLoop(recital_elements, times, recitals) ==
    IF recital_elements = <<>> THEN recitals
    ELSE LET element == Head(recital_elements)
             ps == FindAllNormalP(element)
             text == Strip(ps[1].text)
             m == RecitalNumberMatch(text)
             first_text == Strip(m.rest)
             others == [i \in 1..(Len(ps) - 1) |-> Strip(ps[i + 1].text)]
             remaining_text == Join(others, <<" ">>)
             full_text == IF remaining_text # <<>>
                          THEN first_text \o <<" ">> \o remaining_text ELSE first_text
         IN  IF ps = <<>> \/ ~m.ok
             THEN RecitalsLoop(Tail(recital_elements), times, recitals)
             ELSE RecitalsLoop(Tail(recital_elements), times,
                      Append(recitals,
                             [recital_number |-> m.g1,
                              text |-> NormalizeText(full_text),
                              metadata |-> [extracted_at |-> times[Len(recitals) + 1]]]))

\* sorted(recitals, key=lambda x: int(x["recital_number"])): stable.
RECURSIVE SortRecitals(_)
SortRecitals(s) ==
    IF s = <<>> THEN <<>>
    ELSE LET init == SortRecitals(Take(s, Len(s) - 1))
             x == s[Len(s)]
             n == Cardinality({i \in 1..Len(init) :
                      StrToInt(init[i].recital_number) <= StrToInt(x.recital_number)})
         IN  Take(init, n) \o <<x>> \o Drop(init, n)

\* _extract_recitals
ExtractRecitals(recital_elements, times) ==
    SortRecitals(RecitalsLoop(recital_elements, times, <<>>))

\* The number of recitals _extract_recitals appends.
CountRecitals(recital_elements) ==
    Len(RecitalsLoop(recital_elements, [k \in 1..Len(recital_elements) |-> 0], <<>>))

\* The article record; now is the value read for its metadata.
ArticleRecord(a, paras, now) ==
    LET contents == SelectSeq([i \in 1..Len(paras) |-> paras[i].content_full],
                              LAMBDA c : c # <<>>)
    IN  [article_number |-> ArticleNumber(a),
         title |-> ArticleTitle(a),
         paragraphs |-> paras,
         content_full |-> Join(contents, BlankLine),
         order_index |-> ArticleNumber(a),
         metadata |-> [is_definitions |-> IsDefinitionArticle(ArticleTitle(a)),
                       extracted_at |-> now]]

\* The reads of datetime.now() one article takes.
ArticleReads(a) ==
    IF TakesDefinitionsBranch(ArticleElements(a), ArticleTitle(a)) THEN 2 ELSE 1

\* The loop of _extract_articles; k reads were taken before the first article.
RECURSIVE ArticlesLoop(_, _, _, _)
ArticlesLoop(article_elements, times, k, articles) ==
    IF article_elements = <<>> THEN articles
    ELSE LET a == Head(article_elements)
             n == ArticleReads(a)
         IN  ArticlesLoop(Tail(article_elements), times, k + n,
                 Append(articles,
                        ArticleRecord(a, ArticleParagraphs(a, times[k + 1]), times[k + n])))

\* _extract_articles: sorted by article_number, which is also order_index.
ExtractArticles(article_elements, times, k) ==
    SortByOrderIndex(ArticlesLoop(article_elements, times, k, <<>>))

RECURSIVE SumReads(_)
SumReads(article_elements) ==
    IF article_elements = <<>> THEN 0
    ELSE ArticleReads(Head(article_elements)) + SumReads(Tail(article_elements))

\* _extract_annexes for the annex headers of a document, each a header text
\* and the content nodes following it.
RECURSIVE AnnexLoop(_, _, _)
AnnexLoop(amap, annex_blocks, oi) ==
    IF annex_blocks = <<>> THEN amap
    ELSE AnnexLoop(StoreAnnex(amap, Head(annex_blocks).header, Head(annex_blocks).nodes, oi),
                   Tail(annex_blocks), oi + 1)

ExtractAnnexes(annex_blocks) == ReturnedAnnexes(AnnexLoop(<<>>, annex_blocks, 1))

\* The metadata of the saved data.
DataMetadataWithDate(name, now) == [title |-> name, extracted_at |-> now, document_date |-> now]

DataMetadata(name, now) == [title |-> name, extracted_at |-> now]

\* The number of reads of datetime.now() in one run on a document.
RunReads(doc) == CountRecitals(doc.recitals) + SumReads(doc.articles) + 1

\* The data save_structured_data writes for a document without chapter
\* divisions.
StructuredData(doc, times) ==
    LET r == CountRecitals(doc.recitals)
        n == RunReads(doc)
    IN  [metadata |-> DataMetadata(doc.name, times[n]),
         recitals |-> ExtractRecitals(doc.recitals, times),
         chapters |-> <<>>,
         articles |-> ExtractArticles(doc.articles, times, r),
         annexes |-> ExtractAnnexes(doc.annexes)]

(***************************************************************************)
(* SpecRun: save_structured_data run up to MaxRuns times on one document,  *)
(* the clock advancing up to MaxClock.                                     *)
(***************************************************************************)
MaxRuns == 2
MaxClock == 2

RegulationName == <<"G", "D", "P", "R">>

\* <div id="rct_n"><table><tr><td><p>(n)</p></td><td><p>text</p></td></tr></table></div>
RecitalElem(key, text) == DivElem(<<OneRowTable(TRUE, key, text)>>)
RecitalOne == RecitalElem(<<"(", "1", ")">>, TxtPlain)
RecitalTwo == RecitalElem(<<"(", "2", ")">>, TxtOther)
RecitalUnnumbered == RecitalElem(TxtPlain, TxtOther)
RecitalLists == {<<>>, <<RecitalOne>>, <<RecitalTwo, RecitalOne>>, <<RecitalUnnumbered>>}

ArticleDefinitions ==
    [number |-> 1, title |-> TitleDefinitions,
     children |-> <<PElem(NormalClass, TxtPlain), OneRowTable(TRUE, TxtKeyA, TxtController)>>]
ArticleScope ==
    [number |-> 2, title |-> TitleScope,
     children |-> <<DivElem(<<PElem(NormalClass, TxtNum1),
                              OneRowTable(FALSE, TxtKeyA, TxtOther)>>)>>]
ArticleLists == {<<>>, <<ArticleDefinitions>>, <<ArticleScope>>,
                 <<ArticleScope, ArticleDefinitions>>}

AnnexBlockLists ==
    {<<>>, <<[header |-> HdrAnnexI,
              nodes |-> <<PNode("oj-normal", TxtNum1), PNode("oj-normal", TxtPlain)>>]>>}

Documents ==
    { [name |-> RegulationName, recitals |-> r, articles |-> a, annexes |-> x] :
          r \in RecitalLists, a \in ArticleLists, x \in AnnexBlockLists }

\* The values n successive reads of datetime.now() can return from time t on.
ReadTimes(n, t) ==
    { times \in [1..n -> t..MaxClock] : \A k \in 1..(n - 1) : times[k] <= times[k + 1] }

InitRun ==
    /\ pc = "run"
    /\ document \in Documents
    /\ clock = 0
    /\ outputs = <<>>
    /\ IdleBuilder
    /\ IdleAnnex
    /\ IdleArticle
    /\ IdleContent
    /\ IdleIngest
    /\ IdleMerge

\* Time passes between two runs.
Tick ==
    /\ pc = "run"
    /\ clock < MaxClock
    /\ clock' = clock + 1
    /\ UNCHANGED <<pc, document, outputs, builderVars, annexVars, articleVars, contentVars, ingestVars, mergeVars>>

\* One call of save_structured_data whose download returns the document.
SaveStructuredData ==
    /\ pc = "run"
    /\ Len(outputs) < MaxRuns
    /\ \E times \in ReadTimes(RunReads(document), clock) :
          /\ outputs' = Append(outputs, StructuredData(document, times))
          /\ clock' = times[RunReads(document)]
    /\ UNCHANGED <<pc, document, builderVars, annexVars, articleVars, contentVars, ingestVars, mergeVars>>

NextRun == Tick \/ SaveStructuredData

SpecRun == InitRun /\ [][NextRun]_vars

(***************************************************************************)
(* Properties of the full extraction (SpecRun)                             *)
(***************************************************************************)
\* The data with every extracted_at erased.
WithoutTimestamps(data) ==
    [data EXCEPT
        !.metadata.extracted_at = None,
        !.recitals = [i \in 1..Len(@) |-> [@[i] EXCEPT !.metadata.extracted_at = None]],
        !.articles = [i \in 1..Len(@) |->
            [@[i] EXCEPT
                !.metadata.extracted_at = None,
                !.paragraphs = [k \in 1..Len(@) |->
                                   [@[k] EXCEPT !.metadata.extracted_at = None]]]]]

\* C9: two runs of the full extraction on the same document give identical
\* output; no field of the output depends on the time of the run.
C9_RunsIdentical ==
    \A i, j \in 1..Len(outputs) : outputs[i] = outputs[j]

\* C9 as amended: two runs of the full extraction on the same document give
\* output that is identical except for the extracted_at fields.
C9_RunsIdenticalButTimestamps ==
    \A i, j \in 1..Len(outputs) :
        WithoutTimestamps(outputs[i]) = WithoutTimestamps(outputs[j])

\* C9 witness: two runs at different times of a document with recitals,
\* articles and an annex.
C9_Witness ==
    /\ Len(outputs) = 2
    /\ outputs[1].metadata.extracted_at < outputs[2].metadata.extracted_at
    /\ Len(outputs[2].recitals) = 2
    /\ Len(outputs[2].articles) = 2
    /\ Len(outputs[2].annexes) = 1

(***************************************************************************)
(* The texts the content nodes of one annex hand to the SectionBuilder     *)
(* (_extract_annexes, step 6): the arguments of its feed_text and          *)
(* feed_list calls, in call order.                                         *)
(***************************************************************************)
RECURSIVE NonEmptyTexts(_)
NonEmptyTexts(lines) ==
    IF lines = <<>> THEN <<>>
    ELSE (IF Head(lines) = <<>> THEN <<>> ELSE <<Head(lines)>>) \o NonEmptyTexts(Tail(lines))

\* The calls made for the nodes from position i (0-based) on.  A table pandas
\* accepts goes to add_table_to_current_section and feeds no text.
RECURSIVE FedTexts(_, _, _)
FedTexts(content_nodes, i, processed_texts) ==
    IF i >= Len(content_nodes) THEN <<>>
    ELSE (IF content_nodes[i + 1].name = "table" /\ content_nodes[i + 1].parses THEN <<>>
          ELSE NonEmptyTexts(NodeLines(content_nodes[i + 1], i, processed_texts)))
         \o FedTexts(content_nodes, i + 1, processed_texts)

(***************************************************************************)
(* SpecContent: _extract_annexes on a document with the single header      *)
(* "ANNEX I" followed by up to MaxContent content nodes.                   *)
(***************************************************************************)
MaxContent == 3

TxtOrphan == <<"3", ".">>

\* <tr><td>1.</td><td>ab</td></tr><tr><td>pq</td><td>rs</td></tr>
GridTwoRows == << <<<<"1", ".">>, <<"a", "b">>>>, <<TxtPlain, TxtOther>> >>

ContentNodes ==
    { PNode("oj-normal", TxtOrphan),
      PNode("oj-normal", TxtPlain),
      PNode("oj-normal", TxtNum1),
      PNode("oj-normal", TxtBlank),
      ListNode("ul", <<TxtLetB, TxtDash>>),
      TableNode(GridTwoRows, TRUE, <<"c">>),
      TableNode(GridTwoRows, FALSE, <<"c">>),
      PNode("oj-sti-annex", TxtPlain),
      PNode("oj-normal", TxtDash) }

ContentSeqs == UNION {[1..k -> ContentNodes] : k \in 0..MaxContent}

InitContent ==
    /\ pc = "content"
    /\ collected \in ContentSeqs
    /\ delivered = <<>>
    /\ IdleBuilder
    /\ IdleAnnex
    /\ IdleArticle
    /\ IdleRun
    /\ IdleIngest
    /\ IdleMerge

\* The whole call: the header is found, its nodes are filtered, fed to a fresh
\* builder and stored, and the sorted, checked list is returned.
ExtractContent ==
    /\ pc = "content"
    /\ pc' = "fed"
    /\ \E h \in {AnnexHeader(HdrAnnexI, 1)} :
       \E f \in {FilterSubtitleNodes(collected, h.subtitle)} :
       \E kept \in {Drop(collected, f.remove)} :
          /\ delivered' = FedTexts(kept, 0, PreprocessOrphanNumbers(kept))
          /\ annexes' = ReturnedAnnexes(
                           StoreSections(<<>>, h, f.subtitle, BuildSections(kept), 1))
    /\ UNCHANGED <<collected, builderVars, annex_map, order_index, built, articleVars, runVars,
                   ingestVars, mergeVars>>

NextContent == ExtractContent

SpecContent == InitContent /\ [][NextContent]_vars

(***************************************************************************)
(* Properties of the delivery of content nodes (SpecContent)               *)
(***************************************************************************)
\* C11: a fragment whose whole text is a bare numeric marker ("3.") never
\* becomes a standalone item of a section of the emitted annex: no item, of a
\* section or of a subsection, is a bare numeric marker after trimming.
C11_OrphanNeverItem ==
    pc = "fed" =>
        \A a \in 1..Len(annexes) :
           \A item \in AllItems(annexes[a].sections) : ~IsOrphanNumber(Strip(item))

(***************************************************************************)
(* Errors in a full extraction.  _extract_articles reads the article       *)
(* number with int(article_text.replace('Article', '').strip()) outside of *)
(* any try: a header such as "Article 5a" raises ValueError, which leaves  *)
(* _extract_articles and is caught by save_structured_data, after the data *)
(* would have been written.                                                *)
(***************************************************************************)
\* The text of the p.oj-ti-art of an article whose number carries a suffix.
ArticleHeaderText(a) == ArticleWord \o <<" ">> \o IntToStr(a.number) \o a.suffix

\* int(s) raises ValueError: s is not a run of digits.
IntRaises(s) == s = <<>> \/ DigitRun(s) # Len(s)

ArticleNumberRaises(a) ==
    IntRaises(Strip(Drop(NormalizeText(ArticleHeaderText(a)), Len(ArticleWord))))

\* _extract_articles raises: the loop reaches an article whose header does.
ExtractArticlesRaises(article_elements) ==
    \E i \in 1..Len(article_elements) : ArticleNumberRaises(article_elements[i])

(***************************************************************************)
(* SpecDocument: one call of save_structured_data by an analyzer built     *)
(* with a definition_articles argument, on a document with up to           *)
(* MaxArticles articles whose headers may carry a letter suffix.           *)
(***************************************************************************)
MaxArticles == 2

TitleUpper == <<"D", "E", "F", "I", "N", "I", "T", "I", "O", "N">>

ArticleVariants ==
    { [number |-> 1, suffix |-> <<>>, title |-> TitleDefinitions,
       children |-> <<PElem(NormalClass, TxtPlain), OneRowTable(TRUE, TxtKeyA, TxtController)>>],
      [number |-> 2, suffix |-> <<>>, title |-> TitleScope,
       children |-> <<DivElem(<<PElem(NormalClass, TxtNum1),
                                OneRowTable(FALSE, TxtKeyA, TxtOther)>>)>>],
      [number |-> 3, suffix |-> <<>>, title |-> TitleUpper,
       children |-> <<OneRowTable(TRUE, TxtKeyB, TxtOther)>>],
      [number |-> 5, suffix |-> <<"a">>, title |-> TitleScope,
       children |-> <<PElem(NormalClass, TxtPlain)>>] }

ArticleSeqs == UNION {[1..k -> ArticleVariants] : k \in 0..MaxArticles}

\* EURegulationAnalyzer.__init__: the definition_articles argument, None
\* giving [2, 4].
DefaultDefinitionArticles == {2, 4}
DefinitionArticleArgs == {DefaultDefinitionArticles, {1}}

\* A second <div id="rct_..."> whose text starts with "(1)".
RecitalOneAgain == RecitalElem(<<"(", "1", ")">>, TxtOther)
RecitalInputs == RecitalLists \cup {<<RecitalTwo, RecitalOne, RecitalOneAgain>>}

DocumentInputs ==
    { [name |-> RegulationName, recitals |-> r, articles |-> a, annexes |-> x,
       definition_articles |-> d] :
          r \in RecitalInputs, a \in ArticleSeqs, x \in AnnexBlockLists,
          d \in DefinitionArticleArgs }

InitDocument ==
    /\ pc = "extract"
    /\ document \in DocumentInputs
    /\ clock = 0
    /\ outputs = <<>>
    /\ IdleBuilder
    /\ IdleAnnex
    /\ IdleArticle
    /\ IdleContent
    /\ IdleIngest
    /\ IdleMerge

\* save_structured_data: the data is written unless an extractor raised.
SaveOrFail ==
    /\ pc = "extract"
    /\ IF ExtractArticlesRaises(document.articles)
       THEN /\ pc' = "failed"
            /\ outputs' = outputs
       ELSE /\ pc' = "saved"
            /\ outputs' = Append(outputs,
                  StructuredData(document, [k \in 1..RunReads(document) |-> clock]))
    /\ UNCHANGED <<clock, document, builderVars, annexVars, articleVars, contentVars, ingestVars, mergeVars>>

NextDocument == SaveOrFail

SpecDocument == InitDocument /\ [][NextDocument]_vars

(***************************************************************************)
(* Properties of one extraction of a document (SpecDocument)               *)
(***************************************************************************)
\* C13: an error raised on one fragment (here: one article's header) costs
\* only that fragment: every article of the document whose header is sound is
\* in the saved data, and so are the annexes of the document.
C13_OtherFragmentsEmitted ==
    pc \in {"saved", "failed"} =>
        /\ \A i \in 1..Len(document.articles) :
              ~ArticleNumberRaises(document.articles[i]) =>
                 /\ Len(outputs) = 1
                 /\ \E k \in 1..Len(outputs[1].articles) :
                       outputs[1].articles[k].article_number = document.articles[i].number
        /\ document.annexes # <<>> => Len(outputs) = 1 /\ outputs[1].annexes # <<>>

\* The title holds the word "definition", in any mix of upper and lower case.
MentionsDefinition(title) ==
    \E i \in 0..(Len(title) - Len(TitleUpper)) :
       \A k \in 1..Len(TitleUpper) :
          title[i + k] \in {TitleUpper[k], LowerSeq[LetterIndex(TitleUpper[k])]}

\* The types of the items of an emitted article's paragraphs.
ItemTypes(art) ==
    UNION {{art.paragraphs[p].ordered_contents[k].type :
               k \in 1..Len(art.paragraphs[p].ordered_contents)} :
            p \in 1..Len(art.paragraphs)}

C15_RecitalsSortedDistinct ==
    \A r \in 1..Len(outputs) :
       \A i, j \in 1..Len(outputs[r].recitals) :
          i < j =>
             /\ outputs[r].recitals[i].recital_number # outputs[r].recitals[j].recital_number
             /\ StrToInt(outputs[r].recitals[i].recital_number)
                   <= StrToInt(outputs[r].recitals[j].recital_number)

(***************************************************************************)
(* Tables of an annex.  The manual walk over the rows of a table that      *)
(* pandas rejected (_parse_annex_tables, the except branch): one row per   *)
(* <tr> with at least one cell, the cells normalised and keyed col_0,      *)
(* col_1, ... (here: by their position in the row).                        *)
(***************************************************************************)
RECURSIVE FallbackRows(_)
FallbackRows(grid) ==
    IF grid = <<>> THEN <<>>
    ELSE (IF Len(Head(grid)) >= 1
          THEN <<[i \in 1..Len(Head(grid)) |-> NormalizeText(Head(grid)[i])]>>
          ELSE <<>>)
         \o FallbackRows(Tail(grid))

\* The tables of all sections of an annex.
RECURSIVE SectionTables(_)
SectionTables(secs) ==
    IF secs = <<>> THEN <<>> ELSE Head(secs).tables \o SectionTables(Tail(secs))

\* C16: a table of an emitted annex that the structured parse rejects is
\* there as a fallback table: same caption, one row per <tr> with at least one
\* cell, the cells keyed by position.
C16_FallbackTable ==
    pc = "fed" /\ annexes # <<>> =>
        \A i \in 1..Len(collected) :
           collected[i].name = "table" /\ ~collected[i].parses =>
              \E t \in Range(SectionTables(annexes[1].sections)) :
                 /\ t.caption = collected[i].caption
                 /\ t.rows = FallbackRows(collected[i].grid)

(***************************************************************************)
(* Ingestion of a structured JSON file into the hierarchical database      *)
(* (eu_link_db/ingest_structured_json.py).  A JSON object is a record      *)
(* whose DOMAIN is the set of its keys; a table of the database is the     *)
(* sequence of its rows in insertion order.  The session autoflushes, so   *)
(* session.get sees the rows added earlier in the same call.  The tables   *)
(* Regulation, Recital, Chapter, Article and Paragraph are represented;    *)
(* SubParagraph and the annex tables are filled by loops of the same shape *)
(* that read and write no other table.                                     *)
(***************************************************************************)
\* d.get(k, default)
Get(d, k, default) == IF k \in DOMAIN d THEN d[k] ELSE default

\* session.get(Model, id) is not None, pk being the primary key column
SessionHas(table, pk, id) == \E i \in 1..Len(table) : table[i][pk] = id

CelexGdpr == <<"3", "2", "0", "1", "6", "R", "0", "6", "7", "9">>
CelexAiAct == <<"3", "2", "0", "2", "4", "R", "1", "6", "8", "9">>

\* filename_mapping, in insertion order
FilenameMapping ==
    << [pattern |-> <<"g", "d", "p", "r", "_", "s", "t", "r", "u", "c", "t", "u", "r", "e", "d">>, celex |-> CelexGdpr],
       [pattern |-> <<"a", "i", " ", "a", "c", "t", "_", "s", "t", "r", "u", "c", "t", "u", "r", "e", "d">>, celex |-> CelexAiAct],
       [pattern |-> <<"a", "i", "_", "a", "c", "t", "_", "s", "t", "r", "u", "c", "t", "u", "r", "e", "d">>, celex |-> CelexAiAct],
       [pattern |-> <<"t", "e", "s", "t", "_", "s", "t", "r", "u", "c", "t", "u", "r", "e", "d">>, celex |-> CelexAiAct] >>

\* derive_celex_from_filename, on json_path.stem
DeriveCelexFromFilename(stem) ==
    IF \E i \in 1..Len(FilenameMapping) : IsSubstring(FilenameMapping[i].pattern, ToLower(stem))
    THEN FilenameMapping[CHOOSE i \in 1..Len(FilenameMapping) :
            /\ IsSubstring(FilenameMapping[i].pattern, ToLower(stem))
            /\ \A j \in 1..(i - 1) : ~IsSubstring(FilenameMapping[j].pattern, ToLower(stem))].celex
    ELSE CelexGdpr

\* determine_regulation_metadata: the title
RegulationTitle(json_data) ==
    IF "metadata" \in DOMAIN json_data /\ "title" \in DOMAIN json_data.metadata
    THEN CASE json_data.metadata.title = <<"G", "D", "P", "R">> -> <<"G", "e", "n", "e", "r", "a", "l", " ", "D", "a", "t", "a", " ", "P", "r", "o", "t", "e", "c", "t", "i", "o", "n", " ", "R", "e", "g", "u", "l", "a", "t", "i", "o", "n">>
           [] json_data.metadata.title = <<"A", "I", " ", "A", "c", "t">> -> <<"A", "r", "t", "i", "f", "i", "c", "i", "a", "l", " ", "I", "n", "t", "e", "l", "l", "i", "g", "e", "n", "c", "e", " ", "A", "c", "t">>
           [] OTHER -> json_data.metadata.title
    ELSE <<"U", "n", "k", "n", "o", "w", "n", " ", "R", "e", "g", "u", "l", "a", "t", "i", "o", "n">>

\* determine_regulation_metadata: the year of adoption_date (datetime(year, 1, 1)),
\* None when the celex id is shorter than 5 or int(celex_id[1:5]) raises.
AdoptionYear(celex_id) ==
    IF Len(celex_id) >= 5 /\ ~IntRaises(SubSeq(celex_id, 2, 5))
    THEN IntToStr(StrToInt(SubSeq(celex_id, 2, 5)))
    ELSE None

\* ingest_regulation_metadata; now is datetime.utcnow()
IngestRegulationMetadata(session, celex_id, json_data, now) ==
    IF SessionHas(session.Regulation, "celex_id", celex_id) THEN session
    ELSE [session EXCEPT !.Regulation =
             Append(@, [celex_id |-> celex_id, title |-> RegulationTitle(json_data),
                        type |-> "Regulation", adoption_date |-> AdoptionYear(celex_id),
                        extracted_at |-> now])]

\* ingest_recitals from position idx (0-based) on
RECURSIVE IngestRecitals(_, _, _, _)
IngestRecitals(session, celex_id, recitals_data, idx) ==
    IF idx >= Len(recitals_data) THEN session
    ELSE IngestRecitals(
            IF SessionHas(session.Recital, "recital_id",
                          celex_id \o <<"-", "R", "e", "c">> \o IntToStr(StrToInt(
                              Get(recitals_data[idx + 1], "recital_number", IntToStr(idx + 1)))))
            THEN session
            ELSE [session EXCEPT !.Recital =
                     Append(@, [recital_id |-> celex_id \o <<"-", "R", "e", "c">> \o IntToStr(StrToInt(
                                    Get(recitals_data[idx + 1], "recital_number", IntToStr(idx + 1)))),
                                celex_id |-> celex_id,
                                recital_number |-> StrToInt(
                                    Get(recitals_data[idx + 1], "recital_number", IntToStr(idx + 1))),
                                text |-> Get(recitals_data[idx + 1], "text", <<>>),
                                order_index |-> idx])],
            celex_id, recitals_data, idx + 1)

\* ingest_chapters
RECURSIVE IngestChapters(_, _, _)
IngestChapters(session, celex_id, chapters_data) ==
    IF chapters_data = <<>> THEN session
    ELSE IngestChapters(
            IF SessionHas(session.Chapter, "chapter_id",
                          celex_id \o <<"-", "C", "h">> \o IntToStr(Get(Head(chapters_data), "chapter_number", 1)))
            THEN session
            ELSE [session EXCEPT !.Chapter =
                     Append(@, [chapter_id |-> celex_id \o <<"-", "C", "h">>
                                    \o IntToStr(Get(Head(chapters_data), "chapter_number", 1)),
                                celex_id |-> celex_id,
                                chapter_number |-> Get(Head(chapters_data), "chapter_number", 1),
                                title |-> Get(Head(chapters_data), "title", <<>>),
                                order_index |-> Get(Head(chapters_data), "order_index",
                                                    Get(Head(chapters_data), "chapter_number", 1))])],
            celex_id, Tail(chapters_data))

\* create_article_to_chapter_mapping and article_to_chapter.get(article_number):
\* the chapter of the last entry listing the article, 0 when there is none.
ChapterOfArticle(chapters_data, article_number) ==
    IF \E i \in 1..Len(chapters_data) :
          article_number \in Range(Get(chapters_data[i], "article_numbers", <<>>))
    THEN Get(chapters_data[CHOOSE i \in 1..Len(chapters_data) :
                /\ article_number \in Range(Get(chapters_data[i], "article_numbers", <<>>))
                /\ \A j \in (i + 1)..Len(chapters_data) :
                      article_number \notin Range(Get(chapters_data[j], "article_numbers", <<>>))],
             "chapter_number", 1)
    ELSE 0

\* find_chapter_for_article
FindChapterForArticle(celex_id, article_number, chapters_data) ==
    IF ChapterOfArticle(chapters_data, article_number) # 0
    THEN celex_id \o <<"-", "C", "h">> \o IntToStr(ChapterOfArticle(chapters_data, article_number))
    ELSE None

\* The paragraph number a paragraph at position idx (0-based) is keyed by.
ParaNumber(para_data, idx) ==
    IF Get(para_data, "paragraph_number", None) = None THEN IntToStr(idx + 1)
    ELSE para_data.paragraph_number

\* ingest_paragraphs from position idx (0-based) on
RECURSIVE IngestParagraphs(_, _, _, _)
IngestParagraphs(session, article_id, paragraphs_data, idx) ==
    IF idx >= Len(paragraphs_data) THEN session
    ELSE IngestParagraphs(
            IF SessionHas(session.Paragraph, "paragraph_id",
                          article_id \o <<"-", "P", "a", "r", "a">> \o ParaNumber(paragraphs_data[idx + 1], idx))
            THEN session
            ELSE [session EXCEPT !.Paragraph =
                     Append(@, [paragraph_id |-> article_id \o <<"-", "P", "a", "r", "a">>
                                    \o ParaNumber(paragraphs_data[idx + 1], idx),
                                article_id |-> article_id,
                                paragraph_number |-> ParaNumber(paragraphs_data[idx + 1], idx),
                                content_full |-> Get(paragraphs_data[idx + 1], "content_full", <<>>),
                                order_index |-> idx])],
            article_id, paragraphs_data, idx + 1)

\* article_id of an entry of the file's "articles"
ArticleId(celex_id, article_data) ==
    celex_id \o <<"-", "A", "r", "t">> \o IntToStr(Get(article_data, "article_number", 1))

\* The Article row built for an entry.
ArticleRow(celex_id, article_data, chapters_data) ==
    [article_id |-> ArticleId(celex_id, article_data),
     celex_id |-> celex_id,
     chapter_id |-> FindChapterForArticle(celex_id, Get(article_data, "article_number", 1),
                                          chapters_data),
     article_number |-> Get(article_data, "article_number", 1),
     title |-> Get(article_data, "title", <<>>),
     content_full |-> Get(article_data, "content_full", <<>>),
     order_index |-> Get(article_data, "order_index", Get(article_data, "article_number", 1)),
     is_definitions |-> IF "metadata" \in DOMAIN article_data
                        THEN Get(article_data.metadata, "is_definitions", FALSE)
                        ELSE FALSE]

\* session.add(article) and the paragraphs of the new article
AddArticle(session, celex_id, article_data, chapters_data) ==
    IngestParagraphs([session EXCEPT !.Article = Append(@, ArticleRow(celex_id, article_data, chapters_data))],
                     ArticleId(celex_id, article_data),
                     Get(article_data, "paragraphs", <<>>), 0)

\* ingest_articles without the look-up of the existing row.
RECURSIVE IngestArticlesUnchecked(_, _, _, _)
IngestArticlesUnchecked(session, celex_id, articles_data, chapters_data) ==
    IF articles_data = <<>> THEN session
    ELSE IngestArticlesUnchecked(AddArticle(session, celex_id, Head(articles_data), chapters_data),
                                 celex_id, Tail(articles_data), chapters_data)

\* ingest_articles
RECURSIVE IngestArticles(_, _, _, _)
IngestArticles(session, celex_id, articles_data, chapters_data) ==
    IF articles_data = <<>> THEN session
    ELSE IngestArticles(
            IF SessionHas(session.Article, "article_id", ArticleId(celex_id, Head(articles_data)))
            THEN session
            ELSE AddArticle(session, celex_id, Head(articles_data), chapters_data),
            celex_id, Tail(articles_data), chapters_data)

\* ingest_structured_json_file after the file was read, step by step
IngestedRecitals(session, celex_id, json_data) ==
    IF "recitals" \in DOMAIN json_data THEN IngestRecitals(session, celex_id, json_data.recitals, 0)
    ELSE session

IngestedChapters(session, celex_id, json_data) ==
    IF "chapters" \in DOMAIN json_data THEN IngestChapters(session, celex_id, json_data.chapters)
    ELSE session

IngestedArticles(session, celex_id, json_data) ==
    IF "articles" \in DOMAIN json_data
    THEN IngestArticles(session, celex_id, json_data.articles, Get(json_data, "chapters", <<>>))
    ELSE session

IngestStructuredJsonFile(session, stem, json_data, now) ==
    IngestedArticles(
        IngestedChapters(
            IngestedRecitals(
                IngestRegulationMetadata(session, DeriveCelexFromFilename(stem), json_data, now),
                DeriveCelexFromFilename(stem), json_data),
            DeriveCelexFromFilename(stem), json_data),
        DeriveCelexFromFilename(stem), json_data)

(***************************************************************************)
(* SpecIngest: ingest_structured_json_file called up to MaxIngests times   *)
(* with the same file and the same session, on a database that starts      *)
(* empty.  The file has up to MaxFileArticles articles.                    *)
(***************************************************************************)
MaxIngests == 3
MaxFileArticles == 2

FileStems == {<<"g", "d", "p", "r", "_", "s", "t", "r", "u", "c", "t", "u", "r", "e", "d">>, <<"T", "e", "s", "t", "_", "S", "t", "r", "u", "c", "t", "u", "r", "e", "d">>, <<"d", "m", "a", "_", "s", "t", "r", "u", "c", "t", "u", "r", "e", "d">>}

FileArticles ==
    { [article_number |-> 1, title |-> TitleDefinitions, content_full |-> TxtPlain,
       order_index |-> 1, metadata |-> [is_definitions |-> TRUE],
       paragraphs |-> <<[paragraph_number |-> <<"1">>, content_full |-> TxtPlain],
                        [paragraph_number |-> None, content_full |-> TxtOther]>>],
      [article_number |-> 2, title |-> TitleScope, content_full |-> TxtOther],
      [title |-> TitleScope, metadata |-> [extracted_at |-> 0]] }

FileArticleSeqs == UNION {[1..k -> FileArticles] : k \in 0..MaxFileArticles}

FileBodies ==
    { [articles |-> a] : a \in FileArticleSeqs }
    \cup { [metadata |-> [title |-> t], articles |-> a,
            recitals |-> <<[recital_number |-> <<"1">>, text |-> TxtPlain]>>,
            chapters |-> <<[chapter_number |-> 1, title |-> TxtOther, article_numbers |-> <<1>>]>>] :
              t \in {<<"G", "D", "P", "R">>, <<"T", "e", "s", "t", " ", "R", "e", "g", "u", "l", "a", "t", "i", "o", "n">>}, a \in FileArticleSeqs }
    \cup { [metadata |-> [extraction_date |-> 0]] }

InitIngest ==
    /\ pc = "ingest"
    /\ json_path \in FileStems
    /\ json_file \in FileBodies
    /\ store = EmptyDb
    /\ ingests = 0
    /\ IdleBuilder
    /\ IdleAnnex
    /\ IdleArticle
    /\ IdleRun
    /\ IdleContent
    /\ IdleMerge

\* One call of ingest_structured_json_file(json_path, session).
Ingest ==
    /\ pc = "ingest"
    /\ ingests < MaxIngests
    /\ ingests' = ingests + 1
    /\ \E now \in 0..MaxClock :
          store' = IngestStructuredJsonFile(store, json_path, json_file, now)
    /\ UNCHANGED <<pc, json_path, json_file, builderVars, annexVars, articleVars, runVars, contentVars, mergeVars>>

NextIngest == Ingest

SpecIngest == InitIngest /\ [][NextIngest]_vars

(***************************************************************************)
(* Properties of the ingestion (SpecIngest)                                *)
(***************************************************************************)
\* The articles of the file, none when the key is absent.
ArticlesOfFile == Get(json_file, "articles", <<>>)

\* C17: after any number (at least one) of ingestions of the same file into a
\* database that started empty, there is exactly one Regulation row, exactly
\* one Article row for each article of the file (looked up by its composite
\* identifier), and no other Article row.
C17_OneRecordEach ==
    ingests >= 1 =>
        /\ Len(store.Regulation) = 1
        /\ \A k \in 1..Len(ArticlesOfFile) :
              Cardinality({i \in 1..Len(store.Article) :
                  store.Article[i].article_id
                     = ArticleId(DeriveCelexFromFilename(json_path), ArticlesOfFile[k])}) = 1
        /\ \A i \in 1..Len(store.Article) :
              \E k \in 1..Len(ArticlesOfFile) :
                 store.Article[i].article_id
                    = ArticleId(DeriveCelexFromFilename(json_path), ArticlesOfFile[k])

\* A file with two articles of different numbers was ingested more than once
\* and the database holds two Article rows.
C17_Witness ==
    /\ ingests >= 2
    /\ Len(ArticlesOfFile) = 2
    /\ Get(ArticlesOfFile[1], "article_number", 1) # Get(ArticlesOfFile[2], "article_number", 1)
    /\ Len(store.Article) = 2
    /\ Len(store.Regulation) = 1

(***************************************************************************)
(* Properties of section-letter headers and of dash and roman items        *)
(* (SpecBuilder)                                                           *)
(***************************************************************************)
\* A section key that is one upper-case letter, as the Section header gives.
IsLetterKey(section_id) == Len(section_id) = 1 /\ IsUpper(section_id[1])

\* C18: after any sequence of feeds the builder's section list holds no two
\* sections with the same letter key (a section-letter header re-uses the
\* section of its letter when there is one).
C18_LetterKeysUnique ==
    \A i, j \in 1..Len(sections) :
       i < j /\ IsLetterKey(sections[i].section_id)
          => sections[i].section_id # sections[j].section_id

\* The last operation fed a dash item (a text that reaches the DASH branch) or
\* a roman-numeral item (a text ROMAN matches that reaches no earlier branch).
FedDashItem ==
    /\ lastop.op = "feed_text"
    /\ Strip(lastop.arg) # <<>>
    /\ Classify(Strip(lastop.arg), lastop.before.current_section # 0) = "dash"

FedRomanItem ==
    /\ lastop.op = "feed_text"
    /\ Strip(lastop.arg) # <<>>
    /\ ROMAN(Strip(lastop.arg)).ok
    /\ Classify(Strip(lastop.arg), lastop.before.current_section # 0) = "default"

\* C19: after a dash item or a roman-numeral item was fed there is a current
\* section, what was fed is its last item (the dash item's content; the roman
\* item's content or whole text), and when the builder had no section before,
\* the section is the default section keyed "1".
C19_DashRomanAppended ==
    FedDashItem \/ FedRomanItem =>
        /\ current_section # 0
        /\ sections[current_section].items # <<>>
        /\ sections[current_section].items[Len(sections[current_section].items)]
              \in (IF FedDashItem THEN {Strip(DASH(Strip(lastop.arg)).g1)}
                   ELSE {Strip(ROMAN(Strip(lastop.arg)).g2), Strip(lastop.arg)})
        /\ (lastop.before.sections = <<>> =>
               Len(sections) = 1 /\ sections[1].section_id = <<"1">>)

(***************************************************************************)
(* Delivery of the content nodes in document order (SpecContent)           *)
(***************************************************************************)
\* The nodes of the annex that are left after the subtitle nodes were removed.
KeptNodes ==
    Drop(collected, FilterSubtitleNodes(collected, AnnexHeader(HdrAnnexI, 1).subtitle).remove)

\* The texts the nodes from position i (1-based) on hand to the builder when
\* each node is delivered once and in order: a p that is a bare numeric marker
\* followed by a non-empty node is delivered with that node as the one text
\* "<marker> <next text>" and the delivery goes on after that node; every
\* other node delivers its own texts.
RECURSIVE OnceInOrder(_, _)
OnceInOrder(content_nodes, i) ==
    IF i > Len(content_nodes) THEN <<>>
    ELSE IF /\ content_nodes[i].name = "p"
            /\ IsOrphanNumber(Strip(GetText(content_nodes[i])))
            /\ NextNonEmpty(content_nodes, i) # 0
         THEN <<Strip(GetText(content_nodes[i])) \o <<" ">>
                   \o Strip(GetText(content_nodes[NextNonEmpty(content_nodes, i)]))>>
                 \o OnceInOrder(content_nodes, NextNonEmpty(content_nodes, i) + 1)
         ELSE (IF content_nodes[i].name = "table" /\ content_nodes[i].parses THEN <<>>
               ELSE NonEmptyTexts(NodeLines(content_nodes[i], 0, <<>>)))
              \o OnceInOrder(content_nodes, i + 1)

\* C20: the texts of the content nodes of one annex reach the builder once
\* each and in document order, a bare numeric marker merged with the node
\* that follows it and that node not delivered again.
C20_DeliveredOnceInOrder ==
    pc = "fed" => delivered = OnceInOrder(KeptNodes, 1)

(***************************************************************************)
(* SpecMerge: _merge_sections applied up to MaxMerges times to an existing *)
(* section list with the same new section list.  Both lists are results of *)
(* flush(): up to MaxMergeSections sections; only a letter key can repeat  *)
(* within one list.                                                        *)
(***************************************************************************)
MaxMerges == 2
MaxMergeSections == 2

Subsection(id, items) == [subsection_id |-> id, items |-> items]

TableThree == Table(<<"d">>, << <<TxtPlain, TxtOther>>, <<TxtOther, TxtPlain>> >>)

MergeFixtures ==
    { [Section(<<"1">>, <<"a", "b">>, "ordered", <<TxtPlain>>, <<TableOne>>)
         EXCEPT !.subsections = <<Subsection(<<"b">>, <<TxtPlain>>)>>],
      [Section(<<"1">>, <<"a", "b">>, "ordered", <<TxtOther>>, <<TableTwo>>)
         EXCEPT !.subsections = <<Subsection(<<"b">>, <<TxtOther>>)>>],
      [Section(<<"1">>, <<"a", "b">>, "ordered", <<TxtPlain, TxtOther>>, <<>>)
         EXCEPT !.subsections = <<Subsection(<<"a">>, <<TxtPlain>>)>>],
      Section(<<"2">>, <<"c">>, "dash", <<TxtOther>>, <<TableThree>>),
      Section(<<"2">>, <<"c">>, "ordered", <<>>, <<TableOne, TableTwo>>),
      Section(<<"A">>, <<"h">>, "ordered", <<TxtPlain>>, <<>>),
      Section(<<"A">>, <<"g">>, "ordered", <<TxtOther>>, <<TableOne>>) }

\* The section lists a builder can return: a numeric key occurs once.
MergeLists ==
    { l \in UNION {[1..k -> MergeFixtures] : k \in 0..MaxMergeSections} :
         \A i, j \in 1..Len(l) :
            i < j /\ l[i].section_id = l[j].section_id => IsLetterKey(l[i].section_id) }

InitMerge ==
    /\ pc = "merge"
    /\ fragment \in MergeLists
    /\ \E existing \in MergeLists : merge_log = <<existing>>
    /\ IdleBuilder
    /\ IdleAnnex
    /\ IdleArticle
    /\ IdleRun
    /\ IdleContent
    /\ IdleIngest

\* One call _merge_sections(existing_sections, new_sections); the existing
\* list is changed in place, the log keeps its value after every call.
Merge ==
    /\ pc = "merge"
    /\ Len(merge_log) <= MaxMerges
    /\ merge_log' = Append(merge_log, MergeSections(merge_log[Len(merge_log)], fragment))
    /\ UNCHANGED <<pc, fragment, builderVars, annexVars, articleVars, runVars, contentVars,
                   ingestVars>>

NextMerge == Merge

SpecMerge == InitMerge /\ [][NextMerge]_vars

(***************************************************************************)
(* Properties of the merge (SpecMerge)                                     *)
(***************************************************************************)
\* Everything of the section new_sec is in the section merged: its items, the
\* items of its subsections (under the subsection of the same key) and its
\* tables.
HoldsAll(merged, new_sec) ==
    /\ Range(new_sec.items) \subseteq Range(merged.items)
    /\ \A s \in 1..Len(new_sec.subsections) :
          \E t \in 1..Len(merged.subsections) :
             /\ merged.subsections[t].subsection_id = new_sec.subsections[s].subsection_id
             /\ Range(new_sec.subsections[s].items) \subseteq Range(merged.subsections[t].items)
    /\ Range(new_sec.tables) \subseteq Range(merged.tables)

\* C21: after a merge, for every new section whose section_id was already in
\* the existing list, the existing section of that id holds every item, every
\* subsection item and every table of the new section (a table equal to one
\* already there being present once).
C21_MergeKeepsContent ==
    Len(merge_log) >= 2 =>
        \A n \in 1..Len(fragment) :
           FindExistingSection(merge_log[1], fragment[n].section_id) # 0 =>
              HoldsAll(merge_log[2][FindExistingSection(merge_log[2], fragment[n].section_id)],
                       fragment[n])

\* C30: a second application of _merge_sections with the same new section
\* list leaves the existing list as the first application left it.
C30_MergeIdempotent ==
    Len(merge_log) >= 3 => merge_log[3] = merge_log[2]

\* Two applications were made, the first merged a new section into an
\* existing one of the same id and changed the existing list.
C30_Witness ==
    /\ Len(merge_log) = 3
    /\ merge_log[2] # merge_log[1]
    /\ \E n \in 1..Len(fragment) :
          /\ FindExistingSection(merge_log[1], fragment[n].section_id) # 0
          /\ merge_log[2][FindExistingSection(merge_log[1], fragment[n].section_id)]
                # merge_log[1][FindExistingSection(merge_log[1], fragment[n].section_id)]
    /\ merge_log[3] = merge_log[2]

(***************************************************************************)
(* Properties of the subtitle filter (SpecContent)                         *)
(***************************************************************************)
\* C22: the nodes the subtitle filter removes from the collected content are
\* p nodes that themselves look like a restated subtitle; no table, list or
\* div is removed, so every node from the first non-subtitle node on is kept
\* for the builder.
C22_OnlySubtitlesRemoved ==
    pc = "fed" =>
        \A i \in 1..(Len(collected) - Len(KeptNodes)) :
           /\ collected[i].name = "p"
           /\ LooksLikeSubtitle(collected[i], i - 1)

(***************************************************************************)
(* Properties of the list type set by flush() (SpecContent: the texts fed  *)
(* to the builder of one annex and the sections its flush() returned)      *)
(***************************************************************************)
\* The builder was fed a numbered line and after it dash items only.
FedNumberThenDashes ==
    /\ Len(delivered) >= 2
    /\ Classify(Strip(delivered[1]), FALSE) = "number"
    /\ \A k \in 2..Len(delivered) : Classify(Strip(delivered[k]), TRUE) = "dash"

\* C23: flush() gives a section the list type of the fragments fed into its
\* items; checked where every item of the one section was fed as a dash
\* item: the section's list_type is "dash".
C23_DashItemsGiveDash ==
    pc = "fed" /\ FedNumberThenDashes =>
        /\ Len(annexes) = 1
        /\ Len(annexes[1].sections) = 1
        /\ Len(annexes[1].sections[1].items) = Len(delivered) - 1
        /\ annexes[1].sections[1].list_type = "dash"

(***************************************************************************)
(* C24: flush() returns the sections built so far and leaves the builder   *)
(* empty: no sections, no current section, no current subsection.  A feed  *)
(* that follows a flush gives what the same feed gives on a new builder,   *)
(* and no later feed or table changes the list a flush returned.           *)
(***************************************************************************)
C24_FlushResets ==
    /\ [](pc = "builder" /\ lastop.op = "flush" =>
            /\ TheBuilder = NewBuilder
            /\ flushed = FlushResult(lastop.before))
    /\ [][/\ (lastop'.op # "flush" => flushed' = flushed)
          /\ (lastop.op = "flush" /\ lastop'.op = "feed_text" =>
                 TheBuilder' = FeedText(NewBuilder, lastop'.arg))]_vars

\* A flush returned sections and the next feed built a section of its own.
C24_Witness ==
    /\ pc = "builder"
    /\ flushed # <<>>
    /\ lastop.op = "feed_text"
    /\ lastop.before = NewBuilder
    /\ sections # <<>>

(***************************************************************************)
(* C25: feeding a numbered line "<N>. <heading>" leaves exactly one        *)
(* section keyed "<N>", and it is the current section.  When the section   *)
(* existed, nothing but its heading changes, and the heading gets the new  *)
(* text appended only when it does not contain it already.  Feeding the    *)
(* same line once more changes nothing.                                    *)
(***************************************************************************)
IsNumberedFeed ==
    /\ pc = "builder"
    /\ lastop.op = "feed_text"
    /\ Strip(lastop.arg) # <<>>
    /\ Classify(Strip(lastop.arg), lastop.before.current_section # 0) = "number"

MergedHeading(old_heading, heading) ==
    IF IsSubstring(heading, old_heading) THEN old_heading
    ELSE old_heading \o <<" ">> \o heading

NumberedInto(before, after, id, heading, existing) ==
    /\ Cardinality({i \in 1..Len(after) : after[i].section_id = id}) = 1
    /\ current_section \in 1..Len(after)
    /\ after[current_section].section_id = id
    /\ existing # 0 =>
          /\ current_section = existing
          /\ after = [before EXCEPT ![existing].heading = MergedHeading(@, heading)]
    /\ existing = 0 =>
          after = Append(before, Section(id, heading, "ordered", <<>>, <<>>))

C25_NumberedLine ==
    IsNumberedFeed =>
        /\ NumberedInto(lastop.before.sections, sections,
                        NUMBER(Strip(lastop.arg)).g1, Strip(NUMBER(Strip(lastop.arg)).g2),
                        FindExistingSection(lastop.before.sections,
                                            NUMBER(Strip(lastop.arg)).g1))
        /\ FeedText(TheBuilder, lastop.arg).sections = sections

\* A numbered line fed to a builder whose section of that number has items
\* and another heading: the heading grew, the items stayed.
C25_Witness ==
    /\ IsNumberedFeed
    /\ \E i \in 1..Len(lastop.before.sections) :
          /\ lastop.before.sections[i].section_id = NUMBER(Strip(lastop.arg)).g1
          /\ lastop.before.sections[i].items # <<>>
          /\ lastop.before.sections[i].heading # <<>>
          /\ sections[i].heading # lastop.before.sections[i].heading

(***************************************************************************)
(* C26: a lettered line "(<letter>) <content>" fed while there is a        *)
(* current section appends the content to the current subsection when     *)
(* that subsection is keyed by the letter; otherwise it opens a new        *)
(* subsection with that key at the end of the current section's            *)
(* subsections and puts the content there.  The current section stays the  *)
(* current one and its own items are as before.                            *)
(***************************************************************************)
IsLetteredFeed ==
    /\ pc = "builder"
    /\ lastop.op = "feed_text"
    /\ Strip(lastop.arg) # <<>>
    /\ lastop.before.current_section # 0
    /\ Classify(Strip(lastop.arg), TRUE) = "letter"

SubsectionMatches(b, letter_id) ==
    /\ b.current_subsection # NoSub
    /\ b.sections[b.current_subsection.sec].subsections[b.current_subsection.idx].subsection_id
          = letter_id

LetteredInto(b, after, letter_id, content) ==
    /\ current_section = b.current_section
    /\ after[b.current_section].items = b.sections[b.current_section].items
    /\ SubsectionMatches(b, letter_id) =>
          /\ b.current_subsection.sec = b.current_section
          /\ current_subsection = b.current_subsection
          /\ after = [b.sections EXCEPT
                        ![b.current_section].subsections[b.current_subsection.idx].items =
                            Append(@, content)]
    /\ ~SubsectionMatches(b, letter_id) =>
          /\ current_subsection =
                [sec |-> b.current_section,
                 idx |-> Len(b.sections[b.current_section].subsections) + 1]
          /\ after = [b.sections EXCEPT ![b.current_section].subsections =
                        Append(@, [subsection_id |-> letter_id, items |-> <<content>>])]

C26_LetteredLine ==
    IsLetteredFeed =>
        LetteredInto(lastop.before, sections, LETTER(Strip(lastop.arg)).g1,
                     Strip(LETTER(Strip(lastop.arg)).g2))

\* A lettered line fed to a section that has items of its own and whose
\* current subsection has the same letter: the subsection holds two items.
C26_Witness ==
    /\ IsLetteredFeed
    /\ SubsectionMatches(lastop.before, LETTER(Strip(lastop.arg)).g1)
    /\ sections[current_section].items # <<>>
    /\ Len(sections[current_section].subsections[current_subsection.idx].items) = 2

(***************************************************************************)
(* C29: after any sequence of feed_text, add_table_to_current_section and  *)
(* flush calls, the current section is absent or one of the builder's      *)
(* sections, and absent only when there are no sections; the current       *)
(* subsection is absent or the last subsection of the current section.     *)
(***************************************************************************)
C29_CurrentRefsValid ==
    pc = "builder" =>
        /\ current_section \in 0..Len(sections)
        /\ current_section = 0 => sections = <<>>
        /\ current_subsection # NoSub =>
              /\ current_section # 0
              /\ current_subsection.sec = current_section
              /\ current_subsection.idx = Len(sections[current_section].subsections)
              /\ current_subsection.idx >= 1

\* A current subsection under the second of two sections.
C29_Witness ==
    /\ pc = "builder"
    /\ Len(sections) = 2
    /\ current_section = 2
    /\ current_subsection = [sec |-> 2, idx |-> 1]

(***************************************************************************)
(* C27: in an article that is not a definitions article and has numbered   *)
(* paragraphs, the emitted paragraphs are, one for one and in document     *)
(* order, the direct children of the article whose text starts with        *)
(* "<int>.": the k-th paragraph has the number of the k-th such child.     *)
(***************************************************************************)
NumberedChildren(children) ==
    SelectSeq(children, LAMBDA e : LeadingNumber(ElemTextStripped(e)).ok)

C27_OneParagraphPerNumber ==
    pc = "extracted" /\ ~IsDefinitionArticle(article.title)
                     /\ NumberedChildren(article.children) # <<>> =>
        /\ Len(paragraphs) = Len(NumberedChildren(article.children))
        /\ \A k \in 1..Len(paragraphs) :
              paragraphs[k].paragraph_number =
                  LeadingNumber(ElemTextStripped(NumberedChildren(article.children)[k])).g1

(***************************************************************************)
(* C28: in a numbered paragraph every table row of a marker cell and a     *)
(* content cell gives exactly one subparagraph item, in row order, whose   *)
(* element_id is the marker without its parentheses, also when two rows    *)
(* have the same content or a row repeats the text of the chapeau.         *)
(* Stated for the articles all of whose children start a paragraph, where  *)
(* the k-th paragraph comes from the k-th child alone.                     *)
(***************************************************************************)
RowPairs(rows) ==
    [i \in 1..Len(rows) |-> <<RemoveParens(Strip(rows[i][1].text)),
                              NormalizeText(Strip(rows[i][2].text))>>]

TableRowsOf(element) ==
    SelectSeq(Concat([i \in 1..Len(FindAllTables(element)) |->
                         FindAllTables(element)[i].rows]),
              LAMBDA cells : Len(cells) = 2)

SubparagraphPairs(items) ==
    [i \in 1..Len(SelectSeq(items, LAMBDA it : it.type = "subparagraph")) |->
        <<SelectSeq(items, LAMBDA it : it.type = "subparagraph")[i].element_id,
          SelectSeq(items, LAMBDA it : it.type = "subparagraph")[i].content>>]

C28_EveryRowASubparagraph ==
    pc = "extracted" /\ ~IsDefinitionArticle(article.title)
                     /\ article.children # <<>>
                     /\ NumberedChildren(article.children) = article.children
                     /\ Len(paragraphs) = Len(article.children) =>
        \A k \in 1..Len(paragraphs) :
            SubparagraphPairs(paragraphs[k].ordered_contents)
                = RowPairs(TableRowsOf(article.children[k]))

====
